---- MODULE Spec2Model ----
(***************************************************************************)
(* Model of the normalization and fuzzy-matching engine and of the API     *)
(* checks of biblatex_diagnostics.py, and of check_brace_balance of        *)
(* biblatex_syntax_checker.py.                                             *)
(*                                                                         *)
(* A Python str is modelled as a sequence of characters.  A character is a *)
(* TLA+ string: an ASCII character is the one-character string itself      *)
(* (the backtick is written "BACKTICK"), a precomposed accented letter is  *)
(* base:mark ("u:umlaut"), a combining mark is :mark (":umlaut"), and the  *)
(* non-decomposing letters are written in angle brackets ("<o/>").         *)
(***************************************************************************)
EXTENDS Integers, Sequences, FiniteSets, TLC

VARIABLES
    pc,                \* position of the driver in the call sequence
    args,              \* arguments of the call(s) in progress
    ret,               \* values returned so far
    field_mismatches,  \* BibTeXAPIChecker.field_mismatches
    matches,           \* BibTeXAPIChecker.matches
    mismatches,        \* BibTeXAPIChecker.mismatches
    suggestions,       \* BibTeXAPIChecker.suggestions
    bib_data,          \* the BibliographyData the checker works on
    scholarly_session_active,  \* BibTeXAPIChecker.scholarly_session_active
    not_found          \* BibTeXAPIChecker.not_found

vars == <<pc, args, ret, field_mismatches, matches, mismatches, suggestions, bib_data, scholarly_session_active, not_found>>

\* a new checker without Scholarly (__init__ with use_scholarly=False), and
\* a database without entries
NewChecker ==
    /\ field_mismatches = <<>>
    /\ matches = <<>>
    /\ mismatches = <<>>
    /\ suggestions = <<>>
    /\ scholarly_session_active = FALSE
    /\ not_found = <<>>

NoData == [entries |-> <<>>]

(***************************************************************************)
(* Characters                                                              *)
(***************************************************************************)
Backtick == "BACKTICK"

LowerLetters ==
    {"a","b","c","d","e","f","g","h","i","j","k","l","m",
     "n","o","p","q","r","s","t","u","v","w","x","y","z"}

UpperLetters ==
    {"A","B","C","D","E","F","G","H","I","J","K","L","M",
     "N","O","P","Q","R","S","T","U","V","W","X","Y","Z"}

\* the regex class [a-zA-Z]
AsciiLetters == LowerLetters \cup UpperLetters

LowerOf ==
    [A |-> "a", B |-> "b", C |-> "c", D |-> "d", E |-> "e", F |-> "f",
     G |-> "g", H |-> "h", I |-> "i", J |-> "j", K |-> "k", L |-> "l",
     M |-> "m", N |-> "n", O |-> "o", P |-> "p", Q |-> "q", R |-> "r",
     S |-> "s", T |-> "t", U |-> "u", V |-> "v", W |-> "w", X |-> "x",
     Y |-> "y", Z |-> "z"]

UpperOf ==
    [a |-> "A", b |-> "B", c |-> "C", d |-> "D", e |-> "E", f |-> "F",
     g |-> "G", h |-> "H", i |-> "I", j |-> "J", k |-> "K", l |-> "L",
     m |-> "M", n |-> "N", o |-> "O", p |-> "P", q |-> "Q", r |-> "R",
     s |-> "S", t |-> "T", u |-> "U", v |-> "V", w |-> "W", x |-> "X",
     y |-> "Y", z |-> "Z"]

\* The thirteen accents of latex_accents: the character that follows the
\* backslash in the command, and the combining mark the accent stands for.
AccentNames ==
    {"acute", "grave", "circumflex", "umlaut", "tilde", "macron", "dotabove",
     "breve", "caron", "doubleacute", "cedilla", "ogonek", "ring"}

AccentCmd ==
    [acute |-> "'", grave |-> Backtick, circumflex |-> "^", umlaut |-> "\"",
     tilde |-> "~", macron |-> "=", dotabove |-> ".", breve |-> "u",
     caron |-> "v", doubleacute |-> "H", cedilla |-> "c", ogonek |-> "k",
     ring |-> "r"]

\* Unicode: the ASCII letters that have a precomposed form with each mark
\* (the letters b for which NFC of b followed by the mark is one code point).
Composable ==
    [acute |-> {"a","c","e","g","i","k","l","m","n","o","p","r","s","u","w","y","z",
                "A","C","E","G","I","K","L","M","N","O","P","R","S","U","W","Y","Z"},
     grave |-> {"a","e","i","n","o","u","w","y","A","E","I","N","O","U","W","Y"},
     circumflex |-> {"a","c","e","g","h","i","j","o","s","u","w","y","z",
                     "A","C","E","G","H","I","J","O","S","U","W","Y","Z"},
     umlaut |-> {"a","e","h","i","o","t","u","w","x","y",
                 "A","E","H","I","O","U","W","X","Y"},
     tilde |-> {"a","e","i","n","o","u","v","y","A","E","I","N","O","U","V","Y"},
     macron |-> {"a","e","g","i","o","u","y","A","E","G","I","O","U","Y"},
     dotabove |-> {"a","b","c","d","e","f","g","h","m","n","o","p","r","s","t","w","x","y","z",
                   "A","B","C","D","E","F","G","H","I","M","N","O","P","R","S","T","W","X","Y","Z"},
     breve |-> {"a","e","g","i","o","u","A","E","G","I","O","U"},
     caron |-> {"a","c","d","e","g","h","i","j","k","l","n","o","r","s","t","u","z",
                "A","C","D","E","G","H","I","K","L","N","O","R","S","T","U","Z"},
     doubleacute |-> {"o","u","O","U"},
     cedilla |-> {"c","d","e","g","h","k","l","n","r","s","t",
                  "C","D","E","G","H","K","L","N","R","S","T"},
     ogonek |-> {"a","e","i","o","u","A","E","I","O","U"},
     ring |-> {"a","u","w","y","A","U"}]

\* the combining mark of an accent, and the precomposed letter base+mark
Mark(m) == ":" \o m
Precomposed(b, m) == b \o Mark(m)

CombiningMarks == {Mark(m) : m \in AccentNames}

\* every precomposed letter with its canonical decomposition
Decompositions ==
    UNION {{[ch |-> Precomposed(b, m), base |-> b, accent |-> m,
             mark |-> Mark(m)] :
               b \in Composable[m]} : m \in AccentNames}

PrecomposedLetters == {d.ch : d \in Decompositions}

DecompositionOf(c) == CHOOSE d \in Decompositions : d.ch = c

(***************************************************************************)
(* str methods and re functions used by the program                       *)
(***************************************************************************)
\* s[i:] starts with p
StartsWithAt(s, i, p) ==
    /\ i + Len(p) - 1 <= Len(s)
    /\ \A k \in 1..Len(p) : s[i + k - 1] = p[k]

RECURSIVE ReplaceFrom(_, _, _, _)
ReplaceFrom(s, i, old, new) ==
    IF i > Len(s) THEN <<>>
    ELSE IF StartsWithAt(s, i, old)
         THEN new \o ReplaceFrom(s, i + Len(old), old, new)
         ELSE <<s[i]>> \o ReplaceFrom(s, i + 1, old, new)

\* str.replace(old, new), old non-empty
StrReplace(s, old, new) == ReplaceFrom(s, 1, old, new)

\* for old, new in table.items(): text = text.replace(old, new)
\* (the comparison makes each assignment take place before the next
\* iteration, as the statements of the loop do)
RECURSIVE ReplaceEach(_, _, _)
ReplaceEach(text, table, k) ==
    IF k > Len(table) THEN text
    ELSE LET replaced == StrReplace(text, table[k][1], table[k][2])
         IN  IF replaced = text THEN ReplaceEach(text, table, k + 1)
             ELSE ReplaceEach(replaced, table, k + 1)

\* ''.join(c for c in s if c not in drop)
RemoveChars(s, drop) == SelectSeq(s, LAMBDA c : c \notin drop)

\* A regular expression of the accent loop: a sequence of literal characters
\* in which LetterClass stands for the group ([a-zA-Z]).
LetterClass == "([a-zA-Z])"

MatchAt(s, i, pat) ==
    /\ i + Len(pat) - 1 <= Len(s)
    /\ \A k \in 1..Len(pat) :
          IF pat[k] = LetterClass THEN s[i + k - 1] \in AsciiLetters
          ELSE s[i + k - 1] = pat[k]

GroupIndex(pat) == CHOOSE k \in 1..Len(pat) : pat[k] = LetterClass

RECURSIVE SubFrom(_, _, _)
SubFrom(s, i, pat) ==
    IF i > Len(s) THEN <<>>
    ELSE IF MatchAt(s, i, pat)
         THEN <<s[i + GroupIndex(pat) - 1]>> \o SubFrom(s, i + Len(pat), pat)
         ELSE <<s[i]>> \o SubFrom(s, i + 1, pat)

\* re.sub(pat, r'\1', s)
ReSubGroup(pat, s) == SubFrom(s, 1, pat)

\* the whitespace characters of str.split(), str.strip() and \s
Whitespace == {" ", "\t", "\n"}

\* the non-decomposing letters that have another case
SpecialLower ==
    [c \in {"<O/>", "<AE>", "<OE>", "<ETH>", "<THORN>", "<L/>"} |->
        CASE c = "<O/>" -> "<o/>" [] c = "<AE>" -> "<ae>" [] c = "<OE>" -> "<oe>"
          [] c = "<ETH>" -> "<eth>" [] c = "<THORN>" -> "<thorn>"
          [] c = "<L/>" -> "<l/>"]

SpecialUpper ==
    [c \in {"<o/>", "<ae>", "<oe>", "<eth>", "<thorn>", "<l/>"} |->
        CHOOSE u \in DOMAIN SpecialLower : SpecialLower[u] = c]

\* c.lower(): a string, since the lowercase of a precomposed letter that has
\* no precomposed lowercase is the letter followed by the combining mark
LowerChar(c) ==
    IF c \in UpperLetters THEN <<LowerOf[c]>>
    ELSE IF c \in DOMAIN SpecialLower THEN <<SpecialLower[c]>>
    ELSE IF c \in PrecomposedLetters /\ DecompositionOf(c).base \in UpperLetters
    THEN LET d == DecompositionOf(c)
         IN  IF LowerOf[d.base] \in Composable[d.accent]
             THEN <<Precomposed(LowerOf[d.base], d.accent)>>
             ELSE <<LowerOf[d.base], d.mark>>
    ELSE <<c>>

\* c.upper()
UpperChar(c) ==
    IF c \in LowerLetters THEN <<UpperOf[c]>>
    ELSE IF c \in DOMAIN SpecialUpper THEN <<SpecialUpper[c]>>
    ELSE IF c = "<ss>" THEN <<"S", "S">>
    ELSE IF c \in PrecomposedLetters /\ DecompositionOf(c).base \in LowerLetters
    THEN LET d == DecompositionOf(c)
         IN  IF UpperOf[d.base] \in Composable[d.accent]
             THEN <<Precomposed(UpperOf[d.base], d.accent)>>
             ELSE <<UpperOf[d.base], d.mark>>
    ELSE <<c>>

IsLowerChar(c) ==
    \/ c \in LowerLetters
    \/ c \in DOMAIN SpecialUpper \/ c = "<ss>"
    \/ c \in PrecomposedLetters /\ DecompositionOf(c).base \in LowerLetters

IsUpperChar(c) ==
    \/ c \in UpperLetters
    \/ c \in DOMAIN SpecialLower
    \/ c \in PrecomposedLetters /\ DecompositionOf(c).base \in UpperLetters

RECURSIVE Lower(_)
Lower(s) == IF s = <<>> THEN <<>> ELSE LowerChar(Head(s)) \o Lower(Tail(s))

RECURSIVE Upper(_)
Upper(s) == IF s = <<>> THEN <<>> ELSE UpperChar(Head(s)) \o Upper(Tail(s))

\* s.isupper(): some cased character, and no lowercase one
IsUpper(s) ==
    /\ \E i \in 1..Len(s) : IsUpperChar(s[i])
    /\ \A i \in 1..Len(s) : ~IsLowerChar(s[i])

RECURSIVE LStrip(_, _)
LStrip(s, chars) ==
    IF s # <<>> /\ Head(s) \in chars THEN LStrip(Tail(s), chars) ELSE s

RECURSIVE RStrip(_, _)
RStrip(s, chars) ==
    IF s # <<>> /\ s[Len(s)] \in chars
    THEN RStrip(SubSeq(s, 1, Len(s) - 1), chars) ELSE s

\* s.strip()
Strip(s) == LStrip(RStrip(s, Whitespace), Whitespace)

\* s.split(sep) for a one-character sep: the pieces between the separators,
\* empty ones included
RECURSIVE SplitFrom(_, _, _, _)
SplitFrom(s, i, sep, piece) ==
    IF i > Len(s) THEN <<piece>>
    ELSE IF s[i] = sep THEN <<piece>> \o SplitFrom(s, i + 1, sep, <<>>)
    ELSE SplitFrom(s, i + 1, sep, Append(piece, s[i]))

Split(s, sep) == SplitFrom(s, 1, sep, <<>>)

\* re.split of a pattern [seps]+ : the pieces between the runs of separators
RECURSIVE SplitRunsFrom(_, _, _, _)
SplitRunsFrom(s, i, seps, piece) ==
    IF i > Len(s) THEN <<piece>>
    ELSE IF s[i] \in seps
    THEN IF i > 1 /\ s[i - 1] \in seps
         THEN SplitRunsFrom(s, i + 1, seps, <<>>)
         ELSE <<piece>> \o SplitRunsFrom(s, i + 1, seps, <<>>)
    ELSE SplitRunsFrom(s, i + 1, seps, Append(piece, s[i]))

ReSplitRuns(s, seps) == SplitRunsFrom(s, 1, seps, <<>>)

\* s.split(): the maximal runs of non-whitespace characters
SplitWords(s) == SelectSeq(ReSplitRuns(s, Whitespace), LAMBDA w : w # <<>>)

\* sep.join(pieces)
RECURSIVE Join(_, _)
Join(pieces, sep) ==
    IF pieces = <<>> THEN <<>>
    ELSE IF Len(pieces) = 1 THEN pieces[1]
    ELSE pieces[1] \o sep \o Join(Tail(pieces), sep)

\* sub in s
Range(s) == {s[k] : k \in 1..Len(s)}

Contains(s, sub) == \E i \in 1..(Len(s) + 1) : StartsWithAt(s, i, sub)

(***************************************************************************)
(* remove_accents                                                          *)
(***************************************************************************)
special_unicode_chars ==
    << <<"<o/>", <<"o">> >>,        <<"<O/>", <<"O">> >>,
       <<"<ae>", <<"a", "e">> >>,   <<"<AE>", <<"A", "E">> >>,
       <<"<oe>", <<"o", "e">> >>,   <<"<OE>", <<"O", "E">> >>,
       <<"a:ring", <<"a">> >>,      <<"A:ring", <<"A">> >>,
       <<"<ss>", <<"s", "s">> >>,
       <<"<eth>", <<"d">> >>,       <<"<ETH>", <<"D">> >>,
       <<"<thorn>", <<"t", "h">> >>, <<"<THORN>", <<"T", "H">> >>,
       <<"<l/>", <<"l">> >>,        <<"<L/>", <<"L">> >> >>

\* unicodedata.normalize('NFD', text)
RECURSIVE NFD(_)
NFD(s) ==
    IF s = <<>> THEN <<>>
    ELSE (IF Head(s) \in PrecomposedLetters
          THEN <<DecompositionOf(Head(s)).base, DecompositionOf(Head(s)).mark>>
          ELSE <<Head(s)>>) \o NFD(Tail(s))

\* unicodedata.category(char) == 'Mn'
IsMn(c) == c \in CombiningMarks

remove_accents(text) ==
    LET replaced ==
            ReplaceEach(text,
                        [k \in 1..Len(special_unicode_chars) |->
                            << <<special_unicode_chars[k][1]>>,
                               special_unicode_chars[k][2] >>], 1)
    IN  SelectSeq(NFD(replaced), LAMBDA c : ~IsMn(c))

(***************************************************************************)
(* normalize_latex_text                                                    *)
(***************************************************************************)
\* the four spellings of one special LaTeX character, in dictionary order
SpecialSpellings(name, replacement) ==
    << << <<"{", "\\">> \o name \o <<"}">>, replacement >>,
       << <<"\\">> \o name \o <<"{", "}">>, replacement >>,
       << <<"\\">> \o name \o <<" ">>, replacement >>,
       << <<"\\">> \o name, replacement >> >>

special_chars ==
    SpecialSpellings(<<"o">>, <<"o">>) \o
    SpecialSpellings(<<"O">>, <<"O">>) \o
    SpecialSpellings(<<"a", "a">>, <<"a", "a">>) \o
    SpecialSpellings(<<"A", "A">>, <<"A", "A">>) \o
    SpecialSpellings(<<"a", "e">>, <<"a", "e">>) \o
    SpecialSpellings(<<"A", "E">>, <<"A", "E">>) \o
    SpecialSpellings(<<"o", "e">>, <<"o", "e">>) \o
    SpecialSpellings(<<"O", "E">>, <<"O", "E">>) \o
    SpecialSpellings(<<"s", "s">>, <<"s", "s">>)

base_letters ==
    << << <<"\\", "i">>, <<"i">> >>,
       << <<"\\", "j">>, <<"j">> >>,
       << <<"\\", "l">>, <<"l">> >>,
       << <<"\\", "L">>, <<"L">> >> >>

\* latex_accents.keys(), in dictionary order (each is a backslash and
\* one character)
latex_accents ==
    <<"'", Backtick, "^", "\"", "~", "=", ".", "u", "v", "H", "c", "k", "r">>

\* the accent loop without its last substitution, the unbraced spelling
AccentPatternsBracedOnly(cmd) ==
    << <<"{", "\\", cmd, "{", LetterClass, "}", "}">>,
       <<"{", "\\", cmd, LetterClass, "}">>,
       <<"\\", cmd, "{", LetterClass, "}">> >>

\* the four re.sub calls of the accent loop for one command
AccentPatterns(cmd) ==
    << <<"{", "\\", cmd, "{", LetterClass, "}", "}">>,
       <<"{", "\\", cmd, LetterClass, "}">>,
       <<"\\", cmd, "{", LetterClass, "}">>,
       <<"\\", cmd, LetterClass>> >>

RECURSIVE SubEach(_, _, _)
SubEach(text, pats, k) ==
    IF k > Len(pats) THEN text
    ELSE LET substituted == ReSubGroup(pats[k], text)
         IN  IF substituted = text THEN SubEach(text, pats, k + 1)
             ELSE SubEach(substituted, pats, k + 1)

\* for cmd in latex_accents.keys(): the four substitutions for cmd
RECURSIVE StripAccentCommands(_, _)
StripAccentCommands(text, k) ==
    IF k > Len(latex_accents) THEN text
    ELSE LET stripped == SubEach(text, AccentPatterns(latex_accents[k]), 1)
         IN  IF stripped = text THEN StripAccentCommands(text, k + 1)
             ELSE StripAccentCommands(stripped, k + 1)

normalize_latex_text(text) ==
    LET t1 == ReplaceEach(text, special_chars, 1)
        t2 == ReplaceEach(t1, base_letters, 1)
        t3 == StripAccentCommands(t2, 1)
        t4 == RemoveChars(t3, {"{", "}"})
        t5 == remove_accents(t4)
    IN  RemoveChars(t5, {"-", "'", Backtick})

(***************************************************************************)
(* extract_author_components                                               *)
(***************************************************************************)
NAME_PARTICLES ==
    {<<"v","o","n">>, <<"v","a","n">>, <<"d","e">>, <<"d","e","l">>,
     <<"d","e","l","l","a">>, <<"d","i">>, <<"d","u">>, <<"l","e">>,
     <<"l","a">>, <<"d","a">>, <<"d","o","s">>, <<"d","a","s">>,
     <<"t","e","n">>, <<"t","e","r">>, <<"d","e","n">>, <<"d","e","r">>}

NAME_SUFFIXES ==
    {<<"j","r">>, <<"j","r",".">>, <<"s","r">>, <<"s","r",".">>,
     <<"i","i">>, <<"i","i","i">>, <<"i","v">>, <<"v">>}

\* the comma-separated branch without the search for leading particles
LeadingParticlesKept(words, k) == <<>>

\* the comma-separated branch: the leading particles of the words before
\* the last one, up to the first word that is no particle
RECURSIVE LeadingParticles(_, _)
LeadingParticles(words, k) ==
    IF k >= Len(words) THEN <<>>
    ELSE IF Lower(words[k]) \in NAME_PARTICLES
         THEN <<Lower(words[k])>> \o LeadingParticles(words, k + 1)
         ELSE <<>>

\* the while loop with particles.append in place of particles.insert(0, ..)
RECURSIVE ParticlesBeforeAppended(_, _)
ParticlesBeforeAppended(parts, st) ==
    IF st.last_idx > 1 /\ Lower(parts[st.last_idx - 1]) \in NAME_PARTICLES
    THEN ParticlesBeforeAppended(parts,
            [last_idx |-> st.last_idx - 1,
             particles |-> Append(st.particles, Lower(parts[st.last_idx - 1])),
             last_part |-> parts[Len(parts)],
             first_part |-> Join(SubSeq(parts, 1, st.last_idx - 2), <<" ">>)])
    ELSE st

\* the space-separated branch: the while loop that walks back from the
\* last name over the particles; st = [last_idx, particles, last_part,
\* first_part]
RECURSIVE ParticlesBefore(_, _)
ParticlesBefore(parts, st) ==
    IF st.last_idx > 1 /\ Lower(parts[st.last_idx - 1]) \in NAME_PARTICLES
    THEN ParticlesBefore(parts,
            [last_idx |-> st.last_idx - 1,
             particles |-> <<Lower(parts[st.last_idx - 1])>> \o st.particles,
             last_part |-> parts[Len(parts)],
             first_part |-> Join(SubSeq(parts, 1, st.last_idx - 2), <<" ">>)])
    ELSE st

\* for part in name_parts: the initials each part contributes
RECURSIVE InitialsOfParts(_, _)
InitialsOfParts(name_parts, k) ==
    IF k > Len(name_parts) THEN <<>>
    ELSE LET part == Strip(name_parts[k])
             part_no_dots == RemoveChars(part, {"."})
             own ==
                IF /\ part # <<>>
                   /\ Lower(part) \notin NAME_PARTICLES
                   /\ RStrip(Lower(part), {"."}) \notin NAME_SUFFIXES
                THEN IF /\ Len(part_no_dots) >= 2
                        /\ Len(part_no_dots) <= 4
                        /\ IsUpper(part_no_dots)
                     THEN part_no_dots
                     ELSE UpperChar(part[1])
                ELSE <<>>
         IN  own \o InitialsOfParts(name_parts, k + 1)

\* "Extract initials from first name"
InitialsOf(first_part) ==
    IF first_part = <<>> THEN <<>>
    ELSE LET first_normalized == normalize_latex_text(first_part)
             name_parts == ReSplitRuns(first_normalized, Whitespace \cup {"-"})
         IN  InitialsOfParts(name_parts, 1)

extract_author_components(person_str0) ==
    LET person_str == Strip(person_str0)
    IN  IF "," \in {person_str[i] : i \in 1..Len(person_str)}
        THEN LET parts == Split(person_str, ",")
                 last_part0 == Strip(parts[1])
                 first_part == IF Len(parts) > 1 THEN Strip(parts[2]) ELSE <<>>
                 last_parts_words == SplitWords(last_part0)
                 particles ==
                    IF Len(last_parts_words) > 1
                    THEN LeadingParticles(last_parts_words, 1) ELSE <<>>
                 particle_count == Len(particles)
                 last_part ==
                    IF particle_count > 0
                    THEN Join(SubSeq(last_parts_words, particle_count + 1,
                                     Len(last_parts_words)), <<" ">>)
                    ELSE last_part0
             IN  <<Strip(Lower(normalize_latex_text(last_part))),
                   InitialsOf(first_part), particles>>
        ELSE LET parts == SplitWords(person_str)
             IN  IF Len(parts) = 0 THEN << <<>>, <<>>, <<>> >>
                 ELSE IF Len(parts) = 1
                 THEN <<Lower(normalize_latex_text(parts[1])), <<>>, <<>> >>
                 ELSE LET has_suffix ==
                             RStrip(Lower(parts[Len(parts)]), {"."})
                                 \in NAME_SUFFIXES
                          \* 1-based position of the last name
                          last_idx == IF has_suffix THEN Len(parts) - 1
                                      ELSE Len(parts)
                          st == ParticlesBefore(parts,
                                  [last_idx |-> last_idx,
                                   particles |->
                                      IF has_suffix
                                      THEN <<RStrip(Lower(parts[Len(parts)]), {"."})>>
                                      ELSE <<>>,
                                   last_part |-> parts[last_idx],
                                   first_part |->
                                      Join(SubSeq(parts, 1, last_idx - 1), <<" ">>)])
                      IN  <<Strip(Lower(normalize_latex_text(st.last_part))),
                            InitialsOf(st.first_part), st.particles>>

(***************************************************************************)
(* Inputs                                                                  *)
(***************************************************************************)
\* Python's None, a value no string equals
None == <<"None">>

\* the strings over an alphabet of at most n characters
StringsUpTo(alphabet, n) == UNION {[1..k -> alphabet] : k \in 0..n}

(***************************************************************************)
(* Normalizing the LaTeX spelling and the Unicode spelling of one name     *)
(* (the loop of test_latex_normalization over its cases)                   *)
(***************************************************************************)
\* length of the text around the accented letter
MaxContext == 1

ContextLetters == {"o"}

\* the spellings of an accented letter that the accent loop matches
LatexForm(form, cmd, letter) ==
    CASE form = 1 -> <<"{", "\\", cmd, letter, "}">>
      [] form = 2 -> <<"{", "\\", cmd, "{", letter, "}", "}">>
      [] form = 3 -> <<"\\", cmd, "{", letter, "}">>
      [] form = 4 -> <<"\\", cmd, letter>>

AccentInputs ==
    UNION {{[accent |-> m, letter |-> b, form |-> f,
             latex |-> pre \o LatexForm(f, AccentCmd[m], b) \o suf,
             unicode |-> pre \o <<Precomposed(b, m)>> \o suf] :
               b \in Composable[m], f \in 1..4,
               pre \in StringsUpTo(ContextLetters, MaxContext),
               suf \in StringsUpTo(ContextLetters, MaxContext)} :
           m \in AccentNames}

InitAccent ==
    /\ pc = "latex"
    /\ args \in AccentInputs
    /\ ret = <<>>
    /\ NewChecker
    /\ bib_data = NoData

NormalizeLatexForm ==
    /\ pc = "latex"
    /\ ret' = <<normalize_latex_text(args.latex)>>
    /\ pc' = "unicode"
    /\ UNCHANGED <<args, field_mismatches, matches, mismatches, suggestions, bib_data, scholarly_session_active, not_found>>

NormalizeUnicodeForm ==
    /\ pc = "unicode"
    /\ ret' = Append(ret, normalize_latex_text(args.unicode))
    /\ pc' = "done"
    /\ UNCHANGED <<args, field_mismatches, matches, mismatches, suggestions, bib_data, scholarly_session_active, not_found>>

NextAccent == NormalizeLatexForm \/ NormalizeUnicodeForm

SpecAccent == InitAccent /\ [][NextAccent]_vars

MaxTextLen == 3

TextAlphabet == {"\\", "{", "}", "-", "'", Backtick, "o", "e:acute"}

InitIdem ==
    /\ pc = "normalize"
    /\ args \in {<<x>> : x \in StringsUpTo(TextAlphabet, MaxTextLen)}
    /\ ret = <<>>
    /\ NewChecker
    /\ bib_data = NoData

Normalize ==
    /\ pc = "normalize"
    /\ ret' = <<normalize_latex_text(args[1])>>
    /\ pc' = "renormalize"
    /\ UNCHANGED <<args, field_mismatches, matches, mismatches, suggestions, bib_data, scholarly_session_active, not_found>>

Renormalize ==
    /\ pc = "renormalize"
    /\ ret' = Append(ret, normalize_latex_text(ret[1]))
    /\ pc' = "done"
    /\ UNCHANGED <<args, field_mismatches, matches, mismatches, suggestions, bib_data, scholarly_session_active, not_found>>

NextIdem == Normalize \/ Renormalize

SpecIdem == InitIdem /\ [][NextIdem]_vars

\* C2: normalize_latex_text is idempotent: normalizing the result of a
\* normalization gives the same string, for every input string.
NormalizeIdempotent == pc = "done" => ret[2] = ret[1]

(***************************************************************************)
(* Parsing one author name (the calls of test_author_fixes)                *)
(***************************************************************************)
\* number of tokens of the given name, and of particles before the surname
MaxGiven == 2
MaxParticles == 2

\* The words the names are built from.  Each carries what the documentation
\* says it contributes: norm, its lowercase normalized form, and ini, its
\* initials (one per hyphen-separated part, all letters of grouped initials).
GivenWords ==
    {[text |-> <<"J","o","h","n">>, norm |-> <<"j","o","h","n">>,
      ini |-> <<"J">>],
     [text |-> <<"J",".">>, norm |-> <<"j",".">>, ini |-> <<"J">>],
     [text |-> <<"\\","'","E","v","a">>, norm |-> <<"e","v","a">>,
      ini |-> <<"E">>],
     [text |-> <<"P","i","-","G","i">>, norm |-> <<"p","i","g","i">>,
      ini |-> <<"P","G">>]}

ParticleWords ==
    {[text |-> <<"v","o","n">>, norm |-> <<"v","o","n">>, ini |-> <<>>],
     [text |-> <<"D","e">>, norm |-> <<"d","e">>, ini |-> <<>>]}

SurnameWords ==
    {[text |-> <<"N","e","u","m","a","n","n">>,
      norm |-> <<"n","e","u","m","a","n","n">>, ini |-> <<"N">>],
     [text |-> <<"M","{","\\","\"","u","}","l","l","e","r">>,
      norm |-> <<"m","u","l","l","e","r">>, ini |-> <<"M">>],
     [text |-> <<"J","r",".">>, norm |-> <<"j","r",".">>, ini |-> <<>>]}

SeqsUpTo(S, lo, hi) == UNION {[1..k -> S] : k \in lo..hi}

Texts(words) == [k \in 1..Len(words) |-> words[k].text]
Norms(words) == [k \in 1..Len(words) |-> words[k].norm]

RECURSIVE Initials(_)
Initials(words) ==
    IF Len(words) = 0 THEN <<>>
    ELSE words[1].ini \o Initials([k \in 1..(Len(words) - 1) |-> words[k + 1]])

\* 'G p1 ... pk S' and 'p1 ... pk S, G'
SpaceName(g, p, sn) == Join(Texts(g) \o Texts(p) \o <<sn.text>>, <<" ">>)
CommaName(g, p, sn) ==
    Join(Texts(p) \o <<sn.text>>, <<" ">>) \o <<",", " ">>
        \o Join(Texts(g), <<" ">>)

NameInputs(c) ==
    {[comma |-> c, given |-> g, particles |-> p, surname |-> sn,
      name |-> IF c THEN CommaName(g, p, sn) ELSE SpaceName(g, p, sn)] :
        g \in SeqsUpTo(GivenWords \cup ParticleWords, 1, MaxGiven),
        p \in SeqsUpTo(ParticleWords, 0, MaxParticles),
        sn \in SurnameWords}

InitName ==
    /\ pc = "call"
    /\ args \in NameInputs(FALSE)
    /\ ret = <<>>
    /\ NewChecker
    /\ bib_data = NoData

InitCommaName ==
    /\ pc = "call"
    /\ args \in NameInputs(TRUE)
    /\ ret = <<>>
    /\ NewChecker
    /\ bib_data = NoData

ExtractAuthorComponents ==
    /\ pc = "call"
    /\ ret' = extract_author_components(args.name)
    /\ pc' = "done"
    /\ UNCHANGED <<args, field_mismatches, matches, mismatches, suggestions, bib_data, scholarly_session_active, not_found>>

NextName == ExtractAuthorComponents

SpecName == InitName /\ [][NextName]_vars

SpecCommaName == InitCommaName /\ [][NextName]_vars

IsSuffixWord(w) == RStrip(w.norm, {"."}) \in NAME_SUFFIXES
IsParticleWord(w) == w.norm \in NAME_PARTICLES

\* the name has the shape of C3: no comma, a last token that is no
\* generational suffix, and a given name whose last token is no particle
SpaceShape ==
    /\ ~args.comma
    /\ ~IsSuffixWord(args.surname)
    /\ ~IsParticleWord(args.given[Len(args.given)])

\* C3: for a name 'G p1 ... pk S' without a comma, where S is no
\* generational suffix, p1..pk are particles and the token before p1 is
\* not, the surname is the lowercase normalized S, the particles are
\* p1..pk lowercased in source order, and the initials are those of G.
SpaceNameParsed ==
    (pc = "done" /\ SpaceShape) =>
        /\ ret[1] = args.surname.norm
        /\ ret[3] = Norms(args.particles)
        /\ ret[2] = InitialsOf(Join(Texts(args.given), <<" ">>))

\* 'John von Neumann' gives ('neumann', 'J', ['von'])
SpaceNameParsedWitness ==
    /\ pc = "done" /\ SpaceShape
    /\ args.name = <<"J","o","h","n"," ","v","o","n"," ",
                     "N","e","u","m","a","n","n">>
    /\ ret = << <<"n","e","u","m","a","n","n">>, <<"J">>,
                << <<"v","o","n">> >> >>

\* C4: for a 'Last, First' name the given-name segment is split on
\* whitespace and on hyphens and every resulting part contributes an
\* initial: 'De Gennes, Pierre-Gilles' has the initials 'PG'.
CommaNameInitials ==
    (pc = "done" /\ args.comma) => ret[2] = Initials(args.given)

(***************************************************************************)
(* Grouped and separated initials (test_pfeifer)                           *)
(***************************************************************************)
\* a run of grouped initials has 2 to 4 letters
MinRun == 2
MaxRun == 4

RunLetters == {"N", "C", "V"}

\* 'S, G R' and 'G r1. r2. ... S'
GroupedName(g, run, sn) == sn.text \o <<",", " ">> \o g.text \o <<" ">> \o run
SeparatedName(g, run, sn) ==
    g.text \o <<" ">>
        \o Join([k \in 1..Len(run) |-> <<run[k], ".">>], <<" ">>)
        \o <<" ">> \o sn.text

GroupedInputs ==
    {[run |-> r, grouped |-> GroupedName(g, r, sn),
      separated |-> SeparatedName(g, r, sn)] :
        g \in GivenWords, r \in SeqsUpTo(RunLetters, MinRun, MaxRun),
        sn \in {w \in SurnameWords : ~IsSuffixWord(w)}}

InitGrouped ==
    /\ pc = "grouped"
    /\ args \in GroupedInputs
    /\ ret = <<>>
    /\ NewChecker
    /\ bib_data = NoData

ParseGrouped ==
    /\ pc = "grouped"
    /\ ret' = <<extract_author_components(args.grouped)>>
    /\ pc' = "separated"
    /\ UNCHANGED <<args, field_mismatches, matches, mismatches, suggestions, bib_data, scholarly_session_active, not_found>>

ParseSeparated ==
    /\ pc = "separated"
    /\ ret' = Append(ret, extract_author_components(args.separated))
    /\ pc' = "done"
    /\ UNCHANGED <<args, field_mismatches, matches, mismatches, suggestions, bib_data, scholarly_session_active, not_found>>

NextGrouped == ParseGrouped \/ ParseSeparated

SpecGrouped == InitGrouped /\ [][NextGrouped]_vars

\* C5: 'S, G R' and 'G r1. r2. ... S' have the same initials, for every
\* given name G, every run R of 2 to 4 capital letters and every surname S.
GroupedInitialsAgree == pc = "done" => ret[1][2] = ret[2][2]

(***************************************************************************)
(* extract_citation_key_components                                         *)
(***************************************************************************)
\* the characters \d matches
Digits == {"0", "1", "2", "3", "4", "5", "6", "7", "8", "9"}

\* (19|20)\d{2} matches at position i
YearMatchAt(key, i) ==
    /\ i + 3 <= Len(key)
    /\ <<key[i], key[i + 1]>> \in {<<"1", "9">>, <<"2", "0">>}
    /\ key[i + 2] \in Digits
    /\ key[i + 3] \in Digits

\* the search without the 19 alternative
YearSearch20Only(key) ==
    LET hits == {i \in 1..Len(key) :
                    YearMatchAt(key, i) /\ key[i] = "2"}
    IN  IF hits = {} THEN 0 ELSE CHOOSE i \in hits : \A j \in hits : i <= j

\* re.search: the leftmost match, 0 when there is none
YearSearch(key) ==
    LET hits == {i \in 1..Len(key) : YearMatchAt(key, i)}
    IN  IF hits = {} THEN 0 ELSE CHOOSE i \in hits : \A j \in hits : i <= j

extract_citation_key_components(citation_key) ==
    LET year_pos == YearSearch(citation_key)
    IN  IF year_pos = 0 THEN <<None, None>>
        ELSE LET year == SubSeq(citation_key, year_pos, year_pos + 3)
                 author_part ==
                    RStrip(SubSeq(citation_key, 1, year_pos - 1), {"_", "-"})
             IN  IF author_part = <<>> THEN <<None, None>>
                 ELSE <<Lower(normalize_latex_text(author_part)), year>>

\* length of a citation key
MaxKeyLen == 6

KeyAlphabet == {"S", "-", "_", "1", "9", "2", "0"}

InitKey ==
    /\ pc = "call"
    /\ args \in {<<k>> : k \in StringsUpTo(KeyAlphabet, MaxKeyLen)}
    /\ ret = <<>>
    /\ NewChecker
    /\ bib_data = NoData

ExtractCitationKeyComponents ==
    /\ pc = "call"
    /\ ret' = extract_citation_key_components(args[1])
    /\ pc' = "done"
    /\ UNCHANGED <<args, field_mismatches, matches, mismatches, suggestions, bib_data, scholarly_session_active, not_found>>

NextKey == ExtractCitationKeyComponents

SpecKey == InitKey /\ [][NextKey]_vars

\* the 4-digit substrings 19dd and 20dd of the key, by position
YearPositions(key) ==
    {i \in 1..(Len(key) - 3) :
        /\ \/ key[i] = "1" /\ key[i + 1] = "9"
           \/ key[i] = "2" /\ key[i + 1] = "0"
        /\ {key[i + 2], key[i + 3]} \subseteq Digits}

\* C6: the result is (None, None) exactly when the key has no substring
\* 19dd or 20dd or nothing but '_' and '-' comes before the first one;
\* otherwise the year is the first such substring and the author is the
\* lowercased normalization of the text before it without its trailing
\* '_' and '-'; never is one component None and the other not.
KeyComponents ==
    pc = "done" =>
        LET key == args[1]
            years == YearPositions(key)
            first == CHOOSE i \in years : \A j \in years : i <= j
            before == IF years = {} THEN <<>> ELSE SubSeq(key, 1, first - 1)
            onlyTrimmed == \A k \in 1..Len(before) : before[k] \in {"_", "-"}
            cut == CHOOSE n \in 0..Len(before) :
                      /\ n = 0 \/ before[n] \notin {"_", "-"}
                      /\ \A k \in (n + 1)..Len(before) : before[k] \in {"_", "-"}
        IN  /\ (ret = <<None, None>>) <=> (years = {} \/ onlyTrimmed)
            /\ (ret[1] = None) <=> (ret[2] = None)
            /\ ret # <<None, None>> =>
                  /\ ret[2] = SubSeq(key, first, first + 3)
                  /\ ret[1] = Lower(normalize_latex_text(SubSeq(before, 1, cut)))

\* 'S_2019' has the author 's' and the year 2019
KeyComponentsWitness ==
    /\ pc = "done"
    /\ args[1] = <<"S", "_", "2", "0", "1", "9">>
    /\ ret = << <<"s">>, <<"2", "0", "1", "9">> >>


(***************************************************************************)
(* normalize_journal_name and journals_match_fuzzy                         *)
(***************************************************************************)
normalize_ampersand(text) ==
    StrReplace(StrReplace(text, <<"&", "a", "m", "p", ";">>, <<"&">>),
               <<"\\", "&">>, <<"&">>)

\* if journal.startswith('the '): journal = journal[4:].strip()
DropThe(journal) ==
    IF StartsWithAt(journal, 1, <<"t", "h", "e", " ">>)
    THEN Strip(SubSeq(journal, 5, Len(journal)))
    ELSE journal

normalize_journal_name(journal0) ==
    LET lowered == Lower(journal0)
        unbraced == RemoveChars(lowered, {"{", "}"})
        amp == normalize_ampersand(unbraced)
        nodots == Strip(RemoveChars(amp, {"."}))
    IN  Join(SplitWords(DropThe(nodots)), <<" ">>)

stop_words ==
    {<<"o","f">>, <<"t","h","e">>, <<"a","n","d">>, <<"f","o","r">>,
     <<"i","n">>, <<"o","n">>}

\* w.startswith(p)
StartsWith(w, p) == StartsWithAt(w, 1, p)

Min(a, b) == IF a < b THEN a ELSE b
Max(a, b) == IF a > b THEN a ELSE b

\* the body of the two loops for one pair of words: the pair counts as an
\* abbreviation match
AbbrevPair(w1, w2) ==
    /\ StartsWith(w1, w2) \/ StartsWith(w2, w1)
    /\ IF Min(Len(w1), Len(w2)) <= 2 /\ Max(Len(w1), Len(w2)) > 2
       THEN LET shorter == IF Len(w1) < Len(w2) THEN w1 ELSE w2
                longer == IF Len(w1) < Len(w2) THEN w2 ELSE w1
            IN  StartsWith(longer, shorter)
       ELSE TRUE

\* abbrev_matches: the inner loop breaks at the first matching w2, so each
\* w1 is counted at most once
AbbrevMatches(words1_filtered, words2_filtered) ==
    Cardinality({w1 \in words1_filtered :
                    \E w2 \in words2_filtered : AbbrevPair(w1, w2)})

\* threshold is the fraction threshold[1] / threshold[2]; the similarity
\* intersection / union is compared as a fraction
\* set(norm.split())
WordSet(norm) == Range(SplitWords(norm))

\* lines 286-341: the tests on the two word sets
WordSetsMatch(norm1, norm2, words1, words2, threshold) ==
    LET words1_filtered == words1 \ stop_words
        words2_filtered == words2 \ stop_words
        intersection == Cardinality(words1 \cap words2)
        union == Cardinality(words1 \cup words2)
        smaller_set == IF Cardinality(words1) < Cardinality(words2)
                       THEN words1 ELSE words2
        larger_set == IF Cardinality(words1) < Cardinality(words2)
                      THEN words2 ELSE words1
    IN  IF words1 = {} \/ words2 = {} THEN FALSE
        ELSE IF Contains(norm2, norm1) \/ Contains(norm1, norm2)
        THEN 10 * intersection > 4 * union
        ELSE IF smaller_set \subseteq larger_set THEN TRUE
        ELSE IF 2 * AbbrevMatches(words1_filtered, words2_filtered)
                    >= Min(Cardinality(words1_filtered),
                           Cardinality(words2_filtered))
        THEN TRUE
        ELSE intersection * threshold[2] >= threshold[1] * union

\* lines 278-284: equal normalized names match, otherwise the words decide
NormalizedMatch(norm1, norm2, threshold) ==
    IF norm1 = norm2 THEN TRUE
    ELSE WordSetsMatch(norm1, norm2, WordSet(norm1), WordSet(norm2), threshold)

journals_match_fuzzy(journal1, journal2, threshold) ==
    NormalizedMatch(normalize_journal_name(journal1),
                    normalize_journal_name(journal2), threshold)

\* the default threshold 0.6
DefaultThreshold == <<6, 10>>

(***************************************************************************)
(* Comparing two journal names (the loop of test_journal_matching)         *)
(***************************************************************************)
\* number of words of the first and of the second journal name
MaxWords1 == 4
MaxWords2 == 2

\* the words of the names, each with its normalized form
JournalWords ==
    {[text |-> <<"L","a","b">>, norm |-> <<"l","a","b">>],
     [text |-> <<"o","n">>, norm |-> <<"o","n">>],
     [text |-> <<"a">>, norm |-> <<"a">>],
     [text |-> <<"C","h","i","p">>, norm |-> <<"c","h","i","p">>],
     [text |-> <<"N","a","t","u","r","e">>,
      norm |-> <<"n","a","t","u","r","e">>]}

JournalName(words) == Join(Texts(words), <<" ">>)
NormSet(words) == {words[k].norm : k \in 1..Len(words)}

InitJournal ==
    /\ pc = "call"
    /\ args \in {[journal1 |-> JournalName(n1), journal2 |-> JournalName(n2),
                  words1 |-> NormSet(n1), words2 |-> NormSet(n2)] :
                    n1 \in SeqsUpTo(JournalWords, 1, MaxWords1),
                    n2 \in SeqsUpTo(JournalWords, 1, MaxWords2)}
    /\ ret = <<>>
    /\ NewChecker
    /\ bib_data = NoData

JournalsMatchFuzzy ==
    /\ pc = "call"
    /\ ret' = journals_match_fuzzy(args.journal1, args.journal2,
                                   DefaultThreshold)
    /\ pc' = "done"
    /\ UNCHANGED <<args, field_mismatches, matches, mismatches, suggestions, bib_data, scholarly_session_active, not_found>>

NextJournal == JournalsMatchFuzzy

SpecJournal == InitJournal /\ [][NextJournal]_vars

\* C7: two names match whenever every word of the name with the smaller
\* word set is a word of the other name, however low their Jaccard
\* similarity and whether or not one normalized name contains the other.
SubsetNamesMatch ==
    (pc = "done" /\ (args.words1 \subseteq args.words2
                        \/ args.words2 \subseteq args.words1))
        => ret = TRUE

\* C8: two names whose word sets are non-empty and share no word, and of
\* which no word is a prefix of a word of the other, do not match.
DisjointNamesDiffer ==
    (/\ pc = "done"
     /\ args.words1 # {} /\ args.words2 # {}
     /\ args.words1 \cap args.words2 = {}
     /\ \A w1 \in args.words1, w2 \in args.words2 :
            ~StartsWith(w1, w2) /\ ~StartsWith(w2, w1))
        => ret = FALSE

(***************************************************************************)
(* authors_initials_match                                                  *)
(***************************************************************************)
\* what a call does: it returns value, or raises
Returns(v) == [raised |-> FALSE, value |-> v]
Raises == [raised |-> TRUE, value |-> FALSE]

\* the function without its prefix test
authors_initials_match_no_prefix(initials1, initials2) ==
    IF initials1 = <<>> \/ initials2 = <<>> THEN Returns(TRUE)
    ELSE LET i1 == RemoveChars(Upper(initials1), {".", " "})
             i2 == RemoveChars(Upper(initials2), {".", " "})
         IN  IF i1 = i2 THEN Returns(TRUE)
             ELSE IF i1 = <<>> \/ i2 = <<>> THEN Raises
             ELSE Returns(i1[1] = i2[1])

\* i1[0] == i2[0] raises IndexError when i1 or i2 is empty
authors_initials_match(initials1, initials2) ==
    IF initials1 = <<>> \/ initials2 = <<>> THEN Returns(TRUE)
    ELSE LET i1 == RemoveChars(Upper(initials1), {".", " "})
             i2 == RemoveChars(Upper(initials2), {".", " "})
         IN  IF i1 = i2 THEN Returns(TRUE)
             ELSE IF StartsWith(i1, i2) \/ StartsWith(i2, i1)
             THEN Returns(TRUE)
             ELSE IF i1 = <<>> \/ i2 = <<>> THEN Raises
             ELSE Returns(i1[1] = i2[1])

\* length of an initials string
MaxInitials == 3

InitialsAlphabet == {"S", "J", "s", ".", " "}

InitInitials ==
    /\ pc = "call"
    /\ args \in {<<a, b>> : a, b \in StringsUpTo(InitialsAlphabet, MaxInitials)}
    /\ ret = <<>>
    /\ NewChecker
    /\ bib_data = NoData

AuthorsInitialsMatch ==
    /\ pc = "call"
    /\ ret' = authors_initials_match(args[1], args[2])
    /\ pc' = "done"
    /\ UNCHANGED <<args, field_mismatches, matches, mismatches, suggestions, bib_data, scholarly_session_active, not_found>>

NextInitials == AuthorsInitialsMatch

SpecInitials == InitInitials /\ [][NextInitials]_vars

\* s without its periods and spaces, in uppercase
Bare(s) == Upper(SelectSeq(s, LAMBDA c : c # "." /\ c # " "))

\* C9: authors_initials_match never raises, and returns false exactly when
\* both arguments, without periods and spaces and uppercased, are
\* non-empty and differ in their first character.
InitialsMatchLenient ==
    pc = "done" =>
        /\ ~ret.raised
        /\ ret.value = FALSE <=>
              /\ Bare(args[1]) # <<>> /\ Bare(args[2]) # <<>>
              /\ Bare(args[1])[1] # Bare(args[2])[1]

\* 'J' and 'S.' do not match
InitialsMatchLenientWitness ==
    /\ pc = "done"
    /\ args = << <<"J">>, <<"S", ".">> >>
    /\ ret = Returns(FALSE)


(***************************************************************************)
(* normalize_with_transliterations                                         *)
(***************************************************************************)
\* the characters of has_special
TransliteratedLetters ==
    {"o:umlaut", "a:umlaut", "u:umlaut", "<o/>", "a:ring", "<oe>"}

\* the chain of variant.replace calls
transliterations ==
    << << <<"o:umlaut">>, <<"o", "e">> >>, << <<"O:umlaut">>, <<"O", "e">> >>,
       << <<"a:umlaut">>, <<"a", "e">> >>, << <<"A:umlaut">>, <<"A", "e">> >>,
       << <<"u:umlaut">>, <<"u", "e">> >>, << <<"U:umlaut">>, <<"U", "e">> >>,
       << <<"<o/>">>, <<"o", "e">> >>,     << <<"<O/>">>, <<"O", "e">> >>,
       << <<"a:ring">>, <<"a", "a">> >>,   << <<"A:ring">>, <<"A", "a">> >>,
       << <<"<oe>">>, <<"o", "e">> >>,     << <<"<OE>">>, <<"O", "e">> >> >>

\* variants.append(x) if x is not in variants
AppendNew(variants, x) ==
    IF \E k \in 1..Len(variants) : variants[k] = x THEN variants
    ELSE Append(variants, x)

HasChar(s, c) == \E k \in 1..Len(s) : s[k] = c

\* lines 402-410: the base form, and the base form of the text before the
\* first comma
BaseVariants(text, base) ==
    IF HasChar(text, ",")
    THEN AppendNew(<<base>>,
                   Lower(normalize_latex_text(Strip(Split(text, ",")[1]))))
    ELSE <<base>>

\* lines 421-430: the double-letter spelling, without hyphens and quotes
Transliterated(text) ==
    Lower(RemoveChars(ReplaceEach(text, transliterations, 1),
                      {"-", "'", Backtick}))

\* lines 432-438
WithVariant(variants, base, variant) ==
    LET added == IF variant # base THEN AppendNew(variants, variant)
                 ELSE variants
    IN  IF HasChar(variant, ",")
        THEN AppendNew(added, Strip(Split(variant, ",")[1]))
        ELSE added

TransliterationVariants(text, base) ==
    IF \E c \in TransliteratedLetters : HasChar(Lower(text), c)
    THEN WithVariant(BaseVariants(text, base), base, Transliterated(text))
    ELSE BaseVariants(text, base)

normalize_with_transliterations(text) ==
    TransliterationVariants(text, Lower(normalize_latex_text(text)))

(***************************************************************************)
(* check_unclosed_math_mode and check_page_range_format                    *)
(***************************************************************************)
\* an odd number of $ that no backslash precedes
check_unclosed_math_mode(text) ==
    Cardinality({i \in 1..Len(text) :
                    text[i] = "$" /\ (i = 1 \/ text[i - 1] # "\\")}) % 2 # 0


\* the pages of the error message, or None
check_page_range_format(pages) ==
    IF pages = <<>> \/ Contains(pages, <<"-", "-">>) THEN None
    ELSE IF HasChar(pages, "-") \/ HasChar(pages, "<endash>")
               \/ HasChar(pages, "<emdash>")
    THEN pages
    ELSE None

(***************************************************************************)
(* BibTeXAPIChecker._compare_fields                                        *)
(*                                                                         *)
(* An entry is [type, fields, persons]: fields is a function from the      *)
(* names of the fields present to their text, persons a function from the  *)
(* roles present to the sequence of str(person).                           *)
(* An API result is a record [DOI, doi, published, year, container_title,  *)
(* author, authors]; an absent key is the value its .get default gives     *)
(* (the empty string or the empty list), published is the text of          *)
(* date-parts[0][0] or the empty string.                                   *)
(*                                                                         *)
(* A finding is a record rather than the message text: kind, the           *)
(* positions the message names (0 when it names none) and the two texts    *)
(* it quotes.                                                              *)
(***************************************************************************)
Issue(kind, position, other, local, external) ==
    [kind |-> kind, position |-> position, other |-> other,
     local |-> local, external |-> external]

HasField(entry, name) == name \in DOMAIN entry.fields

\* bool(x) of a string or None
Truthy(x) == x # None /\ x # <<>>

\* text[:n]
Prefix(text, n) == SubSeq(text, 1, Min(n, Len(text)))

DigitValue(c) ==
    CASE c = "0" -> 0 [] c = "1" -> 1 [] c = "2" -> 2 [] c = "3" -> 3
      [] c = "4" -> 4 [] c = "5" -> 5 [] c = "6" -> 6 [] c = "7" -> 7
      [] c = "8" -> 8 [] c = "9" -> 9

RECURSIVE DigitsValue(_)
DigitsValue(ds) ==
    IF ds = <<>> THEN 0
    ELSE 10 * DigitsValue(SubSeq(ds, 1, Len(ds) - 1)) + DigitValue(ds[Len(ds)])

\* int(text): surrounding whitespace, one sign, digits with single
\* underscores between them; valid is false for the ValueError
ParseInt(text) ==
    LET stripped == Strip(text)
        signed == stripped # <<>> /\ stripped[1] \in {"+", "-"}
        body == IF signed THEN Tail(stripped) ELSE stripped
        wellFormed ==
            /\ body # <<>>
            /\ \A k \in 1..Len(body) : body[k] \in Digits \cup {"_"}
            /\ body[1] \in Digits /\ body[Len(body)] \in Digits
            /\ ~Contains(body, <<"_", "_">>)
        magnitude == DigitsValue(SelectSeq(body, LAMBDA c : c \in Digits))
    IN  IF ~wellFormed THEN [valid |-> FALSE, value |-> 0]
        ELSE IF signed /\ stripped[1] = "-"
        THEN [valid |-> TRUE, value |-> 0 - magnitude]
        ELSE [valid |-> TRUE, value |-> magnitude]

\* entry types whose DOI is not compared
SkipDoiTypes ==
    {<<"p", "h", "d", "t", "h", "e", "s", "i", "s">>, <<"b", "o", "o", "k">>,
     <<"m", "i", "s", "c">>}

\* year below which the DOI is not compared
SkipDoiBefore == 1950

\* one item of entry_author_info or api_author_info
AuthorRecord(person_str, components) ==
    [original |-> person_str, lastname |-> components[1],
     initials |-> components[2], particles |-> components[3]]

AuthorInfo(person_str) ==
    AuthorRecord(person_str, extract_author_components(person_str))

Others == <<"o", "t", "h", "e", "r", "s">>

\* the external authors: source selects the key and the shape of its items
ApiAuthorNames(api_result, source) ==
    IF source = "crossref"
    THEN [k \in 1..Len(api_result.author) |->
            LET given == api_result.author[k].given
                family == api_result.author[k].family
            IN  IF given # <<>> THEN Strip(given \o <<" ">> \o family)
                ELSE family]
    ELSE IF source \in {"semantic_scholar", "scholarly"}
    THEN [k \in 1..Len(api_result.authors) |-> api_result.authors[k].name]
    ELSE <<>>

ApiAuthorCount(api_result, source) ==
    IF source = "crossref" THEN Len(api_result.author)
    ELSE IF source \in {"semantic_scholar", "scholarly"}
    THEN Len(api_result.authors)
    ELSE 0

\* the first-author block: surname, else initials
FirstAuthorIssues(entry_first, api_first) ==
    IF entry_first.lastname # api_first.lastname
    THEN << Issue("first_author", 1, 0, entry_first.original,
                  api_first.original) >>
    ELSE IF /\ entry_first.initials # <<>>
            /\ api_first.initials # <<>>
            /\ ~authors_initials_match(entry_first.initials,
                                       api_first.initials).value
    THEN << Issue("first_author_initials", 1, 0, entry_first.original,
                  api_first.original) >>
    ELSE <<>>

\* lines 918-940: the key author against the surname, the surname with the
\* particles prepended, and the transliteration variants
KeyAuthorVariants(key_author, normalized_key_author, entry_first, entry_first_lastname, particles_normalized, variants) ==
    LET entry_first_with_particles ==
            IF entry_first.particles # <<>>
            THEN particles_normalized \o entry_first_lastname
            ELSE entry_first_lastname
        entry_variants ==
            AppendNew(AppendNew(variants, entry_first_lastname),
                      entry_first_with_particles)
        matches_any_variant ==
            \/ normalized_key_author = entry_first_lastname
            \/ normalized_key_author = entry_first_with_particles
            \/ \E k \in 1..Len(entry_variants) :
                  entry_variants[k] = normalized_key_author
    IN  IF matches_any_variant THEN <<>>
        ELSE << Issue("key_author", 1, 0, key_author, entry_first.original) >>

\* the citation-key author against the first local author
KeyAuthorIssues(key_author, entry_first) ==
    IF ~Truthy(key_author) THEN <<>>
    ELSE KeyAuthorVariants(
            key_author,
            Lower(normalize_latex_text(key_author)),
            entry_first,
            Lower(normalize_latex_text(entry_first.lastname)),
            Join([k \in 1..Len(entry_first.particles) |->
                    Lower(normalize_latex_text(entry_first.particles[k]))],
                 <<>>),
            normalize_with_transliterations(entry_first.original))

\* one iteration of the loop over the author positions (i counts from 1)
PositionIssues(entry_author_info, api_author_info, i, first_author_mismatch) ==
    LET entry_auth == entry_author_info[i]
        api_auth == api_author_info[i]
        elsewhere == {j \in 1..Len(api_author_info) :
                        j # i /\ entry_auth.lastname = api_author_info[j].lastname}
    IN  IF i = 1 /\ first_author_mismatch THEN <<>>
        ELSE IF entry_auth.lastname = Others THEN <<>>
        ELSE IF entry_auth.lastname # api_auth.lastname
        THEN IF elsewhere # {}
             THEN << Issue("author_order", i,
                           CHOOSE j \in elsewhere : \A m \in elsewhere : j <= m,
                           entry_auth.original, <<>>) >>
             ELSE << Issue("author_not_in_api", i, 0, entry_auth.original,
                           api_auth.original) >>
        ELSE IF /\ entry_auth.initials # <<>>
                /\ api_auth.initials # <<>>
                /\ ~authors_initials_match(entry_auth.initials,
                                           api_auth.initials).value
        THEN << Issue("author_initials", i, 0, entry_auth.original,
                      api_auth.original) >>
        ELSE <<>>

RECURSIVE LoopIssues(_, _, _, _, _)
LoopIssues(entry_author_info, api_author_info, i, max_check, first_author_mismatch) ==
    IF i > max_check THEN <<>>
    ELSE PositionIssues(entry_author_info, api_author_info, i,
                        first_author_mismatch)
         \o LoopIssues(entry_author_info, api_author_info, i + 1, max_check,
                       first_author_mismatch)

\* the author section once both lists are parsed: [raised, issues]
AuthorComparison(key_author, entry_authors, entry_author_info, api_names, api_author_info, api_author_count) ==
    LET entry_author_str == Lower(Join(entry_authors, <<" ", "a", "n", "d", " ">>))
        et_al == IF Contains(entry_author_str, <<"e", "t", " ", "a", "l", ".">>)
                 THEN << Issue("et_al", 0, 0, <<>>, <<>>) >>
                 ELSE <<>>
        real_author_count ==
            Cardinality({k \in 1..Len(entry_authors) :
                            Lower(entry_authors[k]) # Others})
        and_others ==
            IF /\ Contains(entry_author_str, <<"a", "n", "d", " "
                                               , "o", "t", "h", "e", "r", "s">>)
               /\ real_author_count <= 5
            THEN << Issue("and_others", real_author_count, 0, <<>>, <<>>) >>
            ELSE <<>>
        has_others == \E k \in 1..Len(entry_author_info) :
                         entry_author_info[k].lastname = Others
        count == IF /\ api_author_count # 0
                    /\ Len(entry_authors) # api_author_count
                    /\ ~has_others
                 THEN << Issue("author_count", Len(entry_authors),
                               api_author_count,
                               Join(entry_authors, <<" ", "a", "n", "d", " ">>),
                               Join(api_names, <<" ", "a", "n", "d", " ">>)) >>
                 ELSE <<>>
        compared == api_author_info # <<>> /\ entry_author_info # <<>>
        first_checked == compared /\ entry_author_info[1].lastname # Others
        first_author_mismatch ==
            first_checked
            /\ entry_author_info[1].lastname # api_author_info[1].lastname
        first == IF first_checked
                 THEN FirstAuthorIssues(entry_author_info[1], api_author_info[1])
                      \o KeyAuthorIssues(key_author, entry_author_info[1])
                 ELSE <<>>
        max_check == Min(Len(entry_author_info), Len(api_author_info))
    IN  \* first_author_mismatch is read at i == 0 and was never assigned
        IF compared /\ ~first_checked
        THEN [raised |-> TRUE, issues |-> <<>>]
        ELSE [raised |-> FALSE,
              issues |-> et_al \o and_others \o count \o first
                         \o IF compared
                            THEN LoopIssues(entry_author_info, api_author_info,
                                            1, max_check, first_author_mismatch)
                            ELSE <<>>]

RECURSIVE AuthorInfos(_)
AuthorInfos(names) ==
    IF names = <<>> THEN <<>>
    ELSE <<AuthorInfo(Head(names))>> \o AuthorInfos(Tail(names))

\* the author section of _compare_fields: [raised, issues]
AuthorIssues(key_author, entry, api_result, source) ==
    AuthorComparison(key_author,
                     entry.persons["author"],
                     AuthorInfos(entry.persons["author"]),
                     ApiAuthorNames(api_result, source),
                     AuthorInfos(ApiAuthorNames(api_result, source)),
                     ApiAuthorCount(api_result, source))

\* the findings before the author section followed by those of the author
\* section, or raised when that section ended in an exception
Outcome(issues, authors) ==
    IF authors.raised THEN [raised |-> TRUE, issues |-> <<>>]
    ELSE [raised |-> FALSE, issues |-> issues \o authors.issues]

\* lines 793-801: journal or journaltitle against container-title
JournalIssues(entry, api_result, source) ==
    LET entry_journal ==
            IF HasField(entry, "journal") /\ entry.fields["journal"] # <<>>
            THEN entry.fields["journal"]
            ELSE IF HasField(entry, "journaltitle")
            THEN entry.fields["journaltitle"]
            ELSE None
    IN  IF /\ Truthy(entry_journal) /\ source = "crossref"
           /\ api_result.container_title # <<>>
           /\ ~journals_match_fuzzy(entry_journal,
                                    api_result.container_title[1],
                                    DefaultThreshold)
        THEN << Issue("journal", 0, 0, entry_journal,
                      api_result.container_title[1]) >>
        ELSE <<>>

\* the checks of lines 737-978 in order
FieldIssues(key_components, entry, api_result, source) ==
    LET key_year == key_components[2]
        math == IF HasField(entry, "title")
                   /\ check_unclosed_math_mode(entry.fields["title"])
                THEN << Issue("unclosed_math", 0, 0, <<>>, <<>>) >>
                ELSE <<>>
        entry_year_int ==
            IF HasField(entry, "year")
            THEN ParseInt(Prefix(entry.fields["year"], 4))
            ELSE IF HasField(entry, "date")
            THEN ParseInt(Prefix(entry.fields["date"], 4))
            ELSE [valid |-> FALSE, value |-> 0]
        skip_doi_check ==
            \/ entry_year_int.valid /\ entry_year_int.value < SkipDoiBefore
            \/ Lower(entry.type) \in SkipDoiTypes
        entry_doi == Lower(entry.fields["doi"])
        api_doi == IF source = "crossref" THEN Lower(api_result.DOI)
                   ELSE Lower(api_result.doi)
        doi == IF /\ HasField(entry, "doi") /\ ~skip_doi_check
                  /\ api_doi # <<>> /\ entry_doi # api_doi
               THEN << Issue("doi", 0, 0, entry_doi, api_doi) >>
               ELSE <<>>
        entry_year ==
            IF HasField(entry, "year") THEN Prefix(entry.fields["year"], 4)
            ELSE IF HasField(entry, "date") THEN Prefix(entry.fields["date"], 4)
            ELSE None
        api_year == IF source = "crossref" THEN api_result.published
                    ELSE api_result.year
        year == IF ~Truthy(entry_year) THEN <<>>
                ELSE (IF api_year # <<>> /\ entry_year # api_year
                      THEN << Issue("year", 0, 0, entry_year, api_year) >>
                      ELSE <<>>)
                     \o (IF Truthy(key_year) /\ entry_year # key_year
                         THEN << Issue("key_year", 0, 0, key_year, entry_year) >>
                         ELSE <<>>)
        page_error == IF HasField(entry, "pages")
                      THEN check_page_range_format(entry.fields["pages"])
                      ELSE None
        pages == IF Truthy(page_error)
                 THEN << Issue("pages", 0, 0, page_error, <<>>) >>
                 ELSE <<>>
    IN  Outcome(math \o doi \o year
                     \o JournalIssues(entry, api_result, source) \o pages,
                IF "author" \in DOMAIN entry.persons
                THEN AuthorIssues(key_components[1], entry, api_result, source)
                ELSE [raised |-> FALSE, issues |-> <<>>])

\* the findings of one call, or raised when the call ends in an exception
compare_fields(key, entry, api_result, source) ==
    FieldIssues(extract_citation_key_components(key), entry, api_result, source)

(***************************************************************************)
(* One call of _compare_fields on a fresh checker.  The pages field, the   *)
(* author lists and the source tag vary.                                   *)
(***************************************************************************)
\* number of dash characters between the two page numbers
MaxDashes == 2

\* hyphen, en dash, em dash
Dashes == {"-", "<endash>", "<emdash>"}

\* a page number, or nothing
PageNumbers == {<<>>, <<"1">>}

\* '1', '1-1', '1--1', the en- and em-dash ranges, and their malformed kin
PagesTexts ==
    {a \o sep \o b : a \in PageNumbers, b \in PageNumbers,
                     sep \in StringsUpTo(Dashes, MaxDashes)}

SourceTags == {"crossref", "semantic_scholar", "scholarly", "openalex"}

SmithJ == <<"S", "m", "i", "t", "h", ",", " ", "J">>

\* no author role, or a list of str(person)
LocalAuthorLists == {<<>>, <<Others>>, <<SmithJ>>}

ExternalAuthors == {<<>>, << [given |-> <<"J">>, family |-> <<"S", "m", "i", "t", "h">>] >>}

NoFields == [name \in {} |-> <<>>]

Entry(pagesField, persons) ==
    [type |-> <<"a", "r", "t", "i", "c", "l", "e">>,
     fields |-> pagesField,
     persons |-> persons]

ApiResult(authors) ==
    [DOI |-> <<>>, doi |-> <<>>, published |-> <<>>, year |-> <<>>,
     container_title |-> <<>>,
     author |-> authors,
     authors |-> [k \in 1..Len(authors) |->
                    [name |-> authors[k].given \o <<" ">> \o authors[k].family]]]

PagesFields ==
    {NoFields} \cup {[name \in {"pages"} |-> p] :
                        p \in PagesTexts}

PersonsMaps ==
    {[role \in {} |-> <<>>]} \cup {[role \in {"author"} |-> a] :
                                    a \in LocalAuthorLists}

InitCompare ==
    /\ pc = "call"
    /\ args \in {[key |-> <<"S", "m", "i", "t", "h", "2", "0", "2", "0">>,
                  entry |-> Entry(f, a),
                  api_result |-> ApiResult(x),
                  source |-> t] :
                    f \in PagesFields, a \in PersonsMaps,
                    x \in ExternalAuthors, t \in SourceTags}
    /\ ret = None
    /\ NewChecker
    /\ bib_data = NoData

\* self.field_mismatches.append(...) is the last statement: an exception
\* before it leaves the list as it was
CompareFields ==
    /\ pc = "call"
    /\ LET r == compare_fields(args.key, args.entry, args.api_result, args.source)
       IN  /\ pc' = IF r.raised THEN "raised" ELSE "done"
           /\ field_mismatches' =
                 IF ~r.raised /\ r.issues # <<>>
                 THEN Append(field_mismatches,
                             [entry_id |-> args.key, source |-> args.source,
                              issues |-> r.issues])
                 ELSE field_mismatches
    /\ UNCHANGED <<args, ret, matches, mismatches, suggestions, bib_data, scholarly_session_active, not_found>>

NextCompare == CompareFields

SpecCompare == InitCompare /\ [][NextCompare]_vars

\* a finding of the kind was recorded for the entry of the call
Recorded(kind) ==
    \E m \in 1..Len(field_mismatches) :
        /\ field_mismatches[m].entry_id = args.key
        /\ \E k \in 1..Len(field_mismatches[m].issues) :
              field_mismatches[m].issues[k].kind = kind

AllDigits(s) == s # <<>> /\ \A k \in 1..Len(s) : s[k] \in Digits

\* digits, one of the separators, digits
IsRangeWith(p, sep) ==
    \E i \in 1..(Len(p) - Len(sep) + 1) :
        /\ AllDigits(SubSeq(p, 1, i - 1))
        /\ SubSeq(p, i, i + Len(sep) - 1) = sep
        /\ AllDigits(SubSeq(p, i + Len(sep), Len(p)))

\* C10: once _compare_fields has ended, a pages field that is a range
\* written with a single hyphen, an en dash or an em dash has a page-range
\* finding recorded, a range written with a double hyphen has none, and a
\* single page number has none.
PageRangeFlagged ==
    (pc # "call" /\ HasField(args.entry, "pages")) =>
        LET pages == args.entry.fields["pages"]
        IN  /\ (\E sep \in {<<"-">>, <<"<endash>">>, <<"<emdash>">>} :
                   IsRangeWith(pages, sep)) => Recorded("pages")
            /\ IsRangeWith(pages, <<"-", "-">>) => ~Recorded("pages")
            /\ AllDigits(pages) => ~Recorded("pages")

(***************************************************************************)
(* One call of _compare_fields on a fresh checker, with the author lists   *)
(* of the local entry and of the external record varying.                  *)
(***************************************************************************)
\* number of local authors, and of external authors
MaxLocalAuthors == 3
MaxExternalAuthors == 2

\* a person whose surname is Others
OthersJ == <<"O", "t", "h", "e", "r", "s", ",", " ", "J">>

\* str(person) of the local authors
LocalAuthorNames == {SmithJ, Others, OthersJ}

\* the items of the external author list
ExternalAuthorItems ==
    {[given |-> <<"J">>, family |-> <<"S", "m", "i", "t", "h">>],
     [given |-> <<"M">>, family |-> <<"S", "m", "i", "t", "h">>]}

InitAuthors ==
    /\ pc = "call"
    /\ args \in {[key |-> <<"S", "m", "i", "t", "h", "2", "0", "2", "0">>,
                  entry |-> Entry(NoFields, [role \in {"author"} |-> a]),
                  api_result |-> ApiResult(x),
                  source |-> t] :
                    a \in SeqsUpTo(LocalAuthorNames, 1, MaxLocalAuthors),
                    x \in SeqsUpTo(ExternalAuthorItems, 0, MaxExternalAuthors),
                    t \in SourceTags}
    /\ ret = None
    /\ NewChecker
    /\ bib_data = NoData

SpecAuthors == InitAuthors /\ [][NextCompare]_vars

\* the local author list of the call
LocalAuthors == args.entry.persons["author"]

\* the findings recorded for the entry of the call
RecordedIssues ==
    IF field_mismatches = <<>> THEN <<>> ELSE field_mismatches[1].issues

\* sum(1 for p in entry_authors if str(p).lower() != 'others')
RealAuthorCount(authors) ==
    Cardinality({k \in 1..Len(authors) : Lower(authors[k]) # Others})

\* C11: when the local author list ends with the author 'others' and has 1
\* to 5 real authors, the call records an "and others" finding and no
\* author-count finding, whatever the external authors are.
AndOthersFlagged ==
    (/\ pc # "call"
     /\ LocalAuthors[Len(LocalAuthors)] = Others
     /\ RealAuthorCount(LocalAuthors) \in 1..5)
        => Recorded("and_others") /\ ~Recorded("author_count")

\* the kinds of finding about the surname of one author position, and
\* about its initials
SurnameKinds == {"first_author", "author_order", "author_not_in_api"}
InitialsKinds == {"first_author_initials", "author_initials"}

\* the places of RecordedIssues holding a finding of one of the kinds about
\* the author position
FindingsAt(position, kinds) ==
    {k \in 1..Len(RecordedIssues) :
        /\ RecordedIssues[k].kind \in kinds
        /\ RecordedIssues[k].position = position}

\* C13: _compare_fields returns without raising, and no surname, order,
\* initials or citation-key finding is recorded for a position whose local
\* author is 'others', the first position included.
OthersSkipped ==
    pc # "call" =>
        /\ pc = "done"
        /\ \A i \in 1..Len(LocalAuthors) :
              LocalAuthors[i] = Others =>
                 FindingsAt(i, SurnameKinds \cup InitialsKinds
                                  \cup {"key_author"}) = {}

\* C14: one call records, for every author position, at most one finding
\* about the surname of the position and at most one about its initials.
OneFindingPerPosition ==
    pc = "done" =>
        \A i \in 1..Len(LocalAuthors) :
            /\ Cardinality(FindingsAt(i, SurnameKinds)) <= 1
            /\ Cardinality(FindingsAt(i, InitialsKinds)) <= 1

\* ---------------------------------------------------------------------
\* _rank_suggestions: the order of the suggestions of one entry

\* \w of the re module
IsWordChar(c) ==
    \/ c \in AsciiLetters \cup Digits \cup {"_"}
    \/ IsLowerChar(c) \/ IsUpperChar(c)

\* set(re.sub(r'[^\w\s]', '', title).split())
TitleWords(title) ==
    Range(SplitWords(SelectSeq(title, LAMBDA c : IsWordChar(c) \/ c \in Whitespace)))

\* len(a & b) / len(a | b) as the fraction <<numerator, denominator>>
Jaccard(a, b) == <<Cardinality(a \cap b), Cardinality(a \cup b)>>

\* fraction > tenths / 10
Above(fraction, tenths) == 10 * fraction[1] > tenths * fraction[2]

\* lines 1924-1925: the similarity of two word sets, 0 when one is empty
WordSimilarity(entry_words, sug_words) ==
    IF entry_words = {} \/ sug_words = {} THEN <<0, 1>>
    ELSE Jaccard(entry_words, sug_words)

\* lines 1917-1925: the title similarity of a suggestion, 0 when a title is
\* empty
TitleSimilarity(entry_title, sug) ==
    IF entry_title = <<>> \/ sug.suggestion = <<>> THEN <<0, 1>>
    ELSE WordSimilarity(TitleWords(entry_title), TitleWords(Lower(sug.suggestion)))

\* lines 1928-1938: the first author of the suggestion has the surname of the
\* first local author
AuthorMatches(entry_first_author_lastname, sug) ==
    /\ sug.authors # <<>>
    /\ sug.authors # <<"N", "/", "A">>
    /\ Truthy(entry_first_author_lastname)
    /\ LET sug_first_lastname ==
               extract_author_components(Strip(Split(sug.authors, ",")[1]))[1]
       IN  /\ sug_first_lastname # <<>>
           /\ entry_first_author_lastname = sug_first_lastname

\* lines 1941-1944
YearMatches(entry_year, sug) ==
    /\ Truthy(entry_year)
    /\ sug.year # <<"N", "/", "A">>
    /\ entry_year = sug.year

\* lines 1976-1981
StrategyBonus(sug) ==
    IF sug.strategy = "author_year" THEN 5
    ELSE IF sug.strategy = "author_keywords" THEN 3
    ELSE 0

\* a scoring without the title tiers: the proportional score and the bonuses
\* at every similarity
ScoreProportional(similarity, author_matches, year_matches, bonus) ==
    (100 * similarity[1]) \div similarity[2]
        + (IF author_matches THEN 30 ELSE 0)
        + (IF year_matches THEN 20 ELSE 0)
        + bonus

\* lines 1953-1981: the score of a suggestion
Score(similarity, author_matches, year_matches, bonus) ==
    LET tier ==
            IF Above(similarity, 8) THEN 200
            ELSE IF Above(similarity, 7) THEN 180
            ELSE IF Above(similarity, 6) /\ author_matches THEN 150
            ELSE IF Above(similarity, 6) /\ year_matches THEN 120
            ELSE IF Above(similarity, 6) THEN 110
            ELSE IF Above(similarity, 5) THEN 100
            ELSE (100 * similarity[1]) \div similarity[2]
        low == ~Above(similarity, 6)
    IN  tier + (IF author_matches /\ low THEN 30 ELSE 0)
             + (IF year_matches /\ low THEN 20 ELSE 0)
             + bonus

\* line 1983: (score, sug, title_similarity)
Scored(sug, entry_title, entry_first_author_lastname, entry_year) ==
    LET similarity == TitleSimilarity(entry_title, sug)
    IN  [score |-> Score(similarity,
                         AuthorMatches(entry_first_author_lastname, sug),
                         YearMatches(entry_year, sug),
                         StrategyBonus(sug)),
         sug |-> sug,
         similarity |-> similarity]

\* the key (score, title_similarity) of a is less than that of b
KeyLess(a, b) ==
    \/ a.score < b.score
    \/ /\ a.score = b.score
       /\ a.similarity[1] * b.similarity[2] < b.similarity[1] * a.similarity[2]

\* a sort that puts x before the items of equal key
RECURSIVE InsertBeforeEqual(_, _)
InsertBeforeEqual(sorted, x) ==
    IF sorted = <<>> THEN <<x>>
    ELSE IF ~KeyLess(x, Head(sorted)) THEN <<x>> \o sorted
    ELSE <<Head(sorted)>> \o InsertBeforeEqual(Tail(sorted), x)

\* list.sort(key=..., reverse=True) is stable: x goes after the items whose
\* key is not less than its own
RECURSIVE InsertDescending(_, _)
InsertDescending(sorted, x) ==
    IF sorted = <<>> THEN <<x>>
    ELSE IF KeyLess(Head(sorted), x) THEN <<x>> \o sorted
    ELSE <<Head(sorted)>> \o InsertDescending(Tail(sorted), x)

RECURSIVE SortDescending(_, _)
SortDescending(items, sorted) ==
    IF items = <<>> THEN sorted
    ELSE SortDescending(Tail(items), InsertDescending(sorted, Head(items)))

\* lines 1896-1909: the surname of the first local author, the first four
\* characters of the year or the date, and the title
EntryFirstAuthorLastname(entry) ==
    IF "author" \in DOMAIN entry.persons /\ Len(entry.persons["author"]) > 0
    THEN extract_author_components(entry.persons["author"][1])[1]
    ELSE None

EntryYear(entry) ==
    IF HasField(entry, "year") THEN Prefix(entry.fields["year"], 4)
    ELSE IF HasField(entry, "date") THEN Prefix(entry.fields["date"], 4)
    ELSE None

\* entry.fields.get('title', '').strip('{}').strip()
EntryTitle(entry) ==
    IF HasField(entry, "title")
    THEN Strip(LStrip(RStrip(entry.fields["title"], {"{", "}"}), {"{", "}"}))
    ELSE <<>>

ScoredSuggestions(entry_suggestions, entry_title, lastname, entry_year) ==
    [k \in 1..Len(entry_suggestions) |->
        Scored(entry_suggestions[k], entry_title, lastname, entry_year)]

rank_suggestions(entry_id, entry_suggestions, data) ==
    IF entry_id \notin DOMAIN data.entries THEN entry_suggestions
    ELSE LET entry == data.entries[entry_id]
             scored == SortDescending(
                           ScoredSuggestions(entry_suggestions,
                                             Lower(EntryTitle(entry)),
                                             EntryFirstAuthorLastname(entry),
                                             EntryYear(entry)),
                           <<>>)
         IN  [k \in 1..Len(scored) |-> scored[k].sug]

\* the number of suggestions of one entry
MaxPool == 2

Smith2020 == <<"S", "m", "i", "t", "h", "2", "0", "2", "0">>

\* the local entry: Smith, J (2020), {Sun Sea Sky}
RankedEntry ==
    [type |-> <<"a", "r", "t", "i", "c", "l", "e">>,
     fields |-> [name \in {"title", "year"} |->
                    IF name = "title"
                    THEN <<"{", "S", "u", "n", " ", "S", "e", "a", " ", "S", "k", "y", "}">>
                    ELSE <<"2", "0", "2", "0">>],
     persons |-> [role \in {"author"} |-> <<SmithJ>>]]

\* the suggested titles, of similarity 1, 2/3 and 3/5 to the local title
SuggestedTitles ==
    {<<"S", "u", "n", " ", "S", "e", "a", " ", "S", "k", "y">>,
     <<"S", "u", "n", ",", " ", "s", "e", "a">>,
     <<"S", "u", "n", " ", "S", "e", "a", " ", "S", "k", "y", " ", "F", "o", "g", " ", "I", "c", "e">>}

Suggestion(title, authors, year, strategy) ==
    [entry_id |-> Smith2020, source |-> "crossref", suggestion |-> title,
     authors |-> authors, year |-> year, journal |-> <<"N", "/", "A">>,
     doi |-> <<"1", "0", ".", "1", "/", "x">>, strategy |-> strategy]

\* authors and year of a suggestion: both of the local entry, the year only,
\* or neither
SuggestedAuthorsYears ==
    {<< <<"J", " ", "S", "m", "i", "t", "h">>, <<"2", "0", "2", "0">> >>,
     << <<"N", "/", "A">>, <<"2", "0", "2", "0">> >>,
     << <<"N", "/", "A">>, <<"N", "/", "A">> >>}

Suggestions ==
    {Suggestion(t, ay[1], ay[2], s) :
        t \in SuggestedTitles,
        ay \in SuggestedAuthorsYears,
        s \in {"title_search", "author_year", "author_keywords"}}

\* the database with the local entry, and without it
Databases == {[entries |-> [k \in {Smith2020} |-> RankedEntry]], NoData}

InitRank ==
    /\ pc = "call"
    /\ args \in {[entry_id |-> Smith2020, entry_suggestions |-> p] :
                    p \in SeqsUpTo(Suggestions, 1, MaxPool)}
    /\ ret = None
    /\ NewChecker
    /\ bib_data \in Databases

RankSuggestions ==
    /\ pc = "call"
    /\ pc' = "done"
    /\ ret' = rank_suggestions(args.entry_id, args.entry_suggestions, bib_data)
    /\ UNCHANGED <<args, field_mismatches, matches, mismatches, suggestions, bib_data, scholarly_session_active, not_found>>

NextRank == RankSuggestions

SpecRank == InitRank /\ [][NextRank]_vars

\* the title similarities of the returned suggestions to the local title
RankedSimilarities ==
    LET entry_title == Lower(EntryTitle(bib_data.entries[args.entry_id]))
    IN  [k \in 1..Len(ret) |-> TitleSimilarity(entry_title, ret[k])]

\* in a list of similarities, one above 0.8 comes before every one above 0.6
\* and at most 0.7
HighBeforeMid(similarities) ==
    \A i, j \in 1..Len(similarities) :
        (/\ Above(similarities[i], 8)
         /\ Above(similarities[j], 6)
         /\ ~Above(similarities[j], 7)) => i < j

\* C12: in the returned list, a suggestion whose title similarity to the
\* local title is above 0.8 comes before every suggestion of the list whose
\* similarity is above 0.6 and at most 0.7, whatever the author match, year
\* match and strategy of the latter.
HighTitleFirst ==
    (pc = "done" /\ args.entry_id \in DOMAIN bib_data.entries) =>
        HighBeforeMid(RankedSimilarities)

\* the returned list has a suggestion of similarity above 0.8 and, given
\* second, one of similarity 2/3 with matching author and year found by the
\* author+year search
HighTitleFirstWitness ==
    /\ pc = "done"
    /\ args.entry_id \in DOMAIN bib_data.entries
    /\ Len(ret) = 2
    /\ Above(TitleSimilarity(Lower(EntryTitle(RankedEntry)), ret[1]), 8)
    /\ ret[1] = args.entry_suggestions[2]
    /\ TitleSimilarity(Lower(EntryTitle(RankedEntry)), ret[2]) = <<2, 3>>
    /\ ret[2].strategy = "author_year"
    /\ ret[2].authors # <<"N", "/", "A">>
    /\ ret[2].year # <<"N", "/", "A">>

\* ---------------------------------------------------------------------
\* extract_author_components on every short string

\* length of the name
MaxNameLen == 4

NameAlphabet == {"S", "m", ",", " ", "3", Precomposed("e", "acute")}

InitAnyName ==
    /\ pc = "call"
    /\ args \in {[name |-> n] : n \in StringsUpTo(NameAlphabet, MaxNameLen)}
    /\ ret = <<>>
    /\ NewChecker
    /\ bib_data = NoData

SpecAnyName == InitAnyName /\ [][NextName]_vars

IsAccented(c) == c \in PrecomposedLetters \cup CombiningMarks

\* C15: for every string the call returns a surname without uppercase
\* letter and without accented character, and initials made only of the
\* uppercase letters A to Z.
ComponentsWellFormed ==
    pc = "done" =>
        /\ \A k \in 1..Len(ret[1]) : ~IsUpperChar(ret[1][k]) /\ ~IsAccented(ret[1][k])
        /\ \A k \in 1..Len(ret[2]) : ret[2][k] \in UpperLetters

\* ---------------------------------------------------------------------
\* check_crossref, check_semantic_scholar and update_with_apis

\* _titles_match: the Jaccard index of the word sets is above 0.7
titles_match(title1, title2) ==
    LET words1 == TitleWords(Lower(title1))
        words2 == TitleWords(Lower(title2))
    IN  /\ words1 # {}
        /\ words2 # {}
        /\ Above(Jaccard(words1, words2), 7)

\* text.replace('&amp;', '\\&')
clean_api_field(text) ==
    StrReplace(text, <<"&", "a", "m", "p", ";">>, <<"\\", "&">>)

NA == <<"N", "/", "A">>

\* a record of a Crossref response and of a Semantic Scholar response; an
\* empty value stands for a key that the record does not have
CrossrefRecord(doi, title) ==
    [DOI |-> doi, doi |-> <<>>, title |-> title, published |-> <<>>,
     year |-> <<>>, container_title |-> <<>>, author |-> <<>>,
     authors |-> <<>>]

SemanticRecord(doi, title) ==
    [DOI |-> <<>>, doi |-> doi, title |-> title, published |-> <<>>,
     year |-> <<>>, container_title |-> <<>>, author |-> <<>>,
     authors |-> <<>>]

\* f"{given} {family}" or family, of the authors that have a family name
RECURSIVE AuthorStrings(_)
AuthorStrings(authors) ==
    IF authors = <<>> THEN <<>>
    ELSE LET a == Head(authors)
         IN  (IF a.given # <<>> /\ a.family # <<>>
              THEN << a.given \o <<" ">> \o a.family >>
              ELSE IF a.family # <<>> THEN <<a.family>>
              ELSE <<>>) \o AuthorStrings(Tail(authors))

\* a function with the pairs of f and the pair name, value
WithField(f, name, value) ==
    [n \in DOMAIN f \cup {name} |-> IF n = name THEN value ELSE f[n]]

\* a function with the pairs of f and, when the value is not empty, the pair
\* name, value
WithFieldIf(f, name, value) ==
    IF value = <<>> THEN f ELSE WithField(f, name, value)

Article == <<"a", "r", "t", "i", "c", "l", "e">>

\* _crossref_to_entry of a record without type, volume, issue, page,
\* publisher, ISBN and ISSN
crossref_to_entry(crossref_result, entry_key, entry_type) ==
    LET etype == IF entry_type # <<>> THEN entry_type ELSE Article
        container == IF crossref_result.container_title = <<>> THEN <<>>
                     ELSE clean_api_field(crossref_result.container_title[1])
        titled == [n \in {"title"} |->
                      <<"{">> \o clean_api_field(crossref_result.title) \o <<"}">>]
        dated == WithFieldIf(titled, "year", crossref_result.published)
        housed == IF etype = Article
                  THEN WithFieldIf(dated, "journaltitle", container)
                  ELSE IF etype \in {<<"i", "n", "p", "r", "o", "c", "e", "e", "d", "i", "n", "g", "s">>,
                                     <<"i", "n", "c", "o", "l", "l", "e", "c", "t", "i", "o", "n">>}
                  THEN WithFieldIf(dated, "booktitle", container)
                  ELSE dated
        author_list == AuthorStrings(crossref_result.author)
    IN  [type |-> etype,
         fields |-> WithFieldIf(housed, "doi", clean_api_field(crossref_result.DOI)),
         persons |-> IF author_list = <<>> THEN <<>>
                     ELSE [role \in {"author"} |-> author_list]]

\* _semantic_scholar_to_entry of a record without publicationTypes, venue
\* and externalIds
semantic_scholar_to_entry(ss_result, entry_key, entry_type) ==
    LET etype == IF entry_type # <<>> THEN entry_type ELSE Article
        titled == [n \in {"title"} |->
                      <<"{">> \o clean_api_field(ss_result.title) \o <<"}">>]
        dated == WithFieldIf(titled, "year", ss_result.year)
        author_list ==
            SelectSeq([k \in 1..Len(ss_result.authors) |-> ss_result.authors[k].name],
                      LAMBDA name : name # <<>>)
    IN  [type |-> etype,
         fields |-> WithFieldIf(dated, "doi", clean_api_field(ss_result.doi)),
         persons |-> IF author_list = <<>> THEN <<>>
                     ELSE [role \in {"author"} |-> author_list]]

\* what check_crossref and check_semantic_scholar return: None, the record
\* of the response (a dict) or an Entry
Returned(kind, value) == [kind |-> kind, value |-> value]
ReturnedNone == Returned("None", <<>>)

\* the lists of the checker, as one value
Checker(m, mm, s, fm) ==
    [matches |-> m, mismatches |-> mm, suggestions |-> s, field_mismatches |-> fm]

\* the outcome of a step of a check: the checker after it, whether the
\* function has returned, and what
Step(self, returned, value) == [self |-> self, returned |-> returned, ret |-> value]

\* self.matches.append(...)
WithMatch(self, key, source, title, api_title) ==
    [self EXCEPT !.matches =
        Append(@, [entry_id |-> key, source |-> source, title |-> title,
                   api_title |-> api_title])]

\* the end of _compare_fields: the findings, if any, are appended
WithFindings(self, key, source, issues) ==
    IF issues = <<>> THEN self
    ELSE [self EXCEPT !.field_mismatches =
             Append(@, [entry_id |-> key, source |-> source, issues |-> issues])]

\* lines 1097-1130: the suggestion made of a record
SuggestionOf(key, result, strategy) ==
    LET suggestion_authors == AuthorStrings(Prefix(result.author, 3))
    IN  [entry_id |-> key,
         source |-> "crossref",
         suggestion |-> result.title,
         authors |-> IF suggestion_authors = <<>> THEN NA
                     ELSE Join(suggestion_authors, <<",", " ">>),
         year |-> IF result.published = <<>> THEN NA ELSE result.published,
         journal |-> IF result.container_title = <<>> THEN NA
                     ELSE result.container_title[1],
         doi |-> result.DOI,
         strategy |-> strategy]

\* lines 1092-1131, 1147-1182, 1205-1240: the records whose DOI is not empty
\* and not seen yet become suggestions
\* every record with a DOI becomes a suggestion, seen or not
RECURSIVE SuggestEvery(_, _, _, _)
SuggestEvery(pool, key, results, strategy) ==
    IF results = <<>> THEN pool
    ELSE LET result == Head(results)
         IN  IF result.DOI # <<>>
             THEN SuggestEvery([seen_dois |-> pool.seen_dois \cup {result.DOI},
                                suggestions |-> Append(pool.suggestions,
                                                       SuggestionOf(key, result, strategy))],
                               key, Tail(results), strategy)
             ELSE SuggestEvery(pool, key, Tail(results), strategy)

RECURSIVE Suggest(_, _, _, _)
Suggest(pool, key, results, strategy) ==
    IF results = <<>> THEN pool
    ELSE LET result == Head(results)
         IN  IF result.DOI # <<>> /\ result.DOI \notin pool.seen_dois
             THEN Suggest([seen_dois |-> pool.seen_dois \cup {result.DOI},
                           suggestions |-> Append(pool.suggestions,
                                                  SuggestionOf(key, result, strategy))],
                          key, Tail(results), strategy)
             ELSE Suggest(pool, key, Tail(results), strategy)

\* lines 993-1000: the last word of each author
RECURSIVE AuthorNames(_)
AuthorNames(persons) ==
    IF persons = <<>> THEN <<>>
    ELSE LET parts == SplitWords(Head(persons))
         IN  (IF parts = <<>> THEN <<>> ELSE <<parts[Len(parts)]>>)
                 \o AuthorNames(Tail(persons))

EntryAuthorNames(entry) ==
    IF "author" \in DOMAIN entry.persons THEN AuthorNames(entry.persons["author"])
    ELSE <<>>

\* entry.fields.get('doi', '').strip()
EntryDoi(entry) ==
    IF HasField(entry, "doi") THEN Strip(entry.fields["doi"]) ELSE <<>>

\* line 1189
keyword_stop_words ==
    {<<"t", "h", "e">>, <<"a">>, <<"a", "n">>, <<"o", "f">>, <<"i", "n">>,
     <<"o", "n">>, <<"a", "t">>, <<"t", "o">>, <<"f", "o", "r">>,
     <<"w", "i", "t", "h">>, <<"a", "n", "d">>, <<"o", "r">>, <<"b", "u", "t">>}

\* lines 1187-1190
KeyWords(title) ==
    Prefix(SelectSeq(SplitWords(Lower(title)),
                     LAMBDA w : w \notin keyword_stop_words /\ Len(w) > 3), 3)

\* a response of the API: the request failed (raise_for_status raises), or
\* the records it returned
Response(ok, items) == [ok |-> ok, items |-> items]

\* after self.matches.append(...) and _compare_fields(...) : the step when
\* the comparison raised, which is not a return when the exception is caught
\* before the search by title, and else the return of value
Compared(matched, compared, key, source, returned_when_raised, value) ==
    IF compared.raised THEN Step(matched, returned_when_raised, ReturnedNone)
    ELSE Step(WithFindings(matched, key, source, compared.issues), TRUE, value)

\* lines 1016-1046: the lookup by DOI.  An exception of the request or of
\* _compare_fields is caught at line 1047 and the search by title follows.
DoiLookup(self, key, entry, update, title, doi, response) ==
    IF doi = <<>> \/ ~response.ok \/ response.items = <<>>
    THEN Step(self, FALSE, ReturnedNone)
    ELSE Compared(WithMatch(self, key, "crossref", title, response.items[1].title),
                  compare_fields(key, entry, response.items[1], "crossref"),
                  key, "crossref", FALSE,
                  IF /\ update
                     /\ title # <<>>
                     /\ titles_match(Lower(title), Lower(response.items[1].title))
                  THEN Returned("Entry", crossref_to_entry(response.items[1], key, entry.type))
                  ELSE Returned("dict", response.items[1]))

\* lines 1077-1093: the first record of the search by title matches
TitleMatch(self, key, entry, update, title, doi, first_result) ==
    Compared(WithMatch(self, key, "crossref", title, Lower(first_result.title)),
             compare_fields(key, entry, first_result, "crossref"),
             key, "crossref", TRUE,
             IF /\ update
                /\ doi # <<>>
                /\ first_result.DOI # <<>>
                /\ Lower(doi) = Lower(first_result.DOI)
             THEN Returned("Entry", crossref_to_entry(first_result, key, entry.type))
             ELSE Returned("dict", first_result))

\* lines 1133-1240: the searches by author and year and by author and
\* keywords, made while the checker has no match; a failed request ends the
\* call (line 1243)
AuthorSearches(self, seen_dois, key, entry, title, api) ==
    LET author_names == EntryAuthorNames(entry)
        by_year == author_names # <<>> /\ Truthy(EntryYear(entry)) /\ self.matches = <<>>
        by_keywords == author_names # <<>> /\ self.matches = <<>> /\ KeyWords(title) # <<>>
        start == [seen_dois |-> seen_dois, suggestions |-> self.suggestions]
        second == IF by_year /\ api.by_author_year.ok
                  THEN Suggest(start, key, Prefix(api.by_author_year.items, 5), "author_year")
                  ELSE start
        third == IF by_year /\ ~api.by_author_year.ok THEN second
                 ELSE IF by_keywords /\ api.by_keywords.ok
                 THEN Suggest(second, key, Prefix(api.by_keywords.items, 3), "author_keywords")
                 ELSE second
    IN  Step([self EXCEPT !.suggestions = third.suggestions], TRUE, ReturnedNone)

\* lines 1094-1131: the records of the search by title become suggestions
TitleSuggestions(self, found, key, entry, title, api) ==
    AuthorSearches([self EXCEPT !.suggestions = found.suggestions],
                   found.seen_dois, key, entry, title, api)

\* lines 1049-1131: the search by title
TitleSearch(self, key, entry, update, title, doi, api) ==
    IF title = <<>> \/ ~api.by_title.ok THEN Step(self, TRUE, ReturnedNone)
    ELSE IF api.by_title.items # <<>>
            /\ titles_match(Lower(title), Lower(api.by_title.items[1].title))
    THEN TitleMatch(self, key, entry, update, title, doi, api.by_title.items[1])
    ELSE TitleSuggestions(self,
                          Suggest([seen_dois |-> {}, suggestions |-> self.suggestions],
                                  key, Prefix(api.by_title.items, 5), "title_search"),
                          key, entry, title, api)

\* the search by title follows the lookup by DOI that has not returned
AfterDoiLookup(looked_up, key, entry, update, title, doi, api) ==
    IF looked_up.returned THEN looked_up
    ELSE TitleSearch(looked_up.self, key, entry, update, title, doi, api)

\* check_crossref: the checker after the call and the value returned
check_crossref(self, key, entry, update, api) ==
    AfterDoiLookup(DoiLookup(self, key, entry, update, EntryTitle(entry),
                             EntryDoi(entry), api.by_doi),
                   key, entry, update, EntryTitle(entry), EntryDoi(entry), api)

\* lines 1282-1300: the first record of Semantic Scholar
SemanticResult(self, key, entry, update, title, result) ==
    IF titles_match(Lower(title), Lower(result.title))
    THEN Compared(WithMatch(self, key, "semantic_scholar", title, Lower(result.title)),
                  compare_fields(key, entry, result, "semantic_scholar"),
                  key, "semantic_scholar", TRUE,
                  IF /\ update
                     /\ EntryDoi(entry) # <<>>
                     /\ result.doi # <<>>
                     /\ Lower(EntryDoi(entry)) = Lower(result.doi)
                  THEN Returned("Entry", semantic_scholar_to_entry(result, key, entry.type))
                  ELSE ReturnedNone)
    ELSE Step([self EXCEPT !.mismatches =
                  Append(@, [entry_id |-> key, title |-> title,
                             api_title |-> Lower(result.title)])],
              TRUE, ReturnedNone)

\* check_semantic_scholar
check_semantic_scholar(self, key, entry, update, response) ==
    IF EntryTitle(entry) = <<>> \/ ~response.ok \/ response.items = <<>>
    THEN Step(self, TRUE, ReturnedNone)
    ELSE SemanticResult(self, key, entry, update, EntryTitle(entry), response.items[1])

(***************************************************************************)
(* check_crossref is called once for every entry of a database, in any     *)
(* order.  The service answers the searches of one run with the same       *)
(* records, which args holds.                                              *)
(***************************************************************************)
\* number of records in a response
MaxItems == 2

DoiA == <<"1", "0", ".", "1", "/", "a">>
DoiB == <<"1", "0", ".", "1", "/", "b">>

SunsSeaSky == <<"S", "u", "n", "s", " ", "S", "e", "a", " ", "S", "k", "y">>
FogsIce == <<"F", "o", "g", "s", " ", "I", "c", "e">>

Jones2021 == <<"J", "o", "n", "e", "s", "2", "0", "2", "1">>

\* an entry with a title and an author, with the other fields given
TitledEntry(type, title, others) ==
    [type |-> type,
     fields |-> WithField(others, "title", <<"{">> \o title \o <<"}">>),
     persons |-> [role \in {"author"} |-> <<SmithJ>>]]

\* Smith2020 has a year, Jones2021 has none; neither has a DOI
SearchedData ==
    [entries |->
        [k \in {Smith2020, Jones2021} |->
            IF k = Smith2020
            THEN TitledEntry(Article, SunsSeaSky, [n \in {"year"} |-> <<"2", "0", "2", "0">>])
            ELSE TitledEntry(Article, FogsIce, <<>>)]]

\* the records of the search by title: one with the title of Smith2020, one
\* with another DOI, one without DOI
TitleRecords ==
    {CrossrefRecord(DoiA, SunsSeaSky), CrossrefRecord(DoiB, <<"I", "c", "e">>),
     CrossrefRecord(<<>>, <<"I", "c", "e">>)}

\* the records of the searches by author
AuthorRecords ==
    {CrossrefRecord(DoiA, <<"I", "c", "e">>), CrossrefRecord(DoiB, <<"I", "c", "e">>)}

\* a failed request, or up to MaxItems records
Responses(records) ==
    {Response(FALSE, <<>>)} \cup {Response(TRUE, r) : r \in SeqsUpTo(records, 0, MaxItems)}

NoResponse == Response(FALSE, <<>>)

InitCrossref ==
    /\ pc = "call"
    /\ args \in {[by_doi |-> NoResponse, by_title |-> t, by_author_year |-> y,
                  by_keywords |-> w, semantic_scholar |-> NoResponse] :
                    t \in Responses(TitleRecords),
                    y \in Responses(AuthorRecords),
                    w \in Responses(AuthorRecords)}
    /\ ret = <<>>
    /\ NewChecker
    /\ bib_data = SearchedData

\* the keys of the calls made so far
Checked == {ret[k].key : k \in 1..Len(ret)}

\* the lists of the checker become those of self
CheckerBecomes(self) ==
    /\ matches' = self.matches
    /\ mismatches' = self.mismatches
    /\ suggestions' = self.suggestions
    /\ field_mismatches' = self.field_mismatches

\* the call for key has made the step
Called(key, step) ==
    /\ CheckerBecomes(step.self)
    /\ ret' = Append(ret, [key |-> key, kind |-> step.ret.kind])

CheckCrossref(key) ==
    /\ pc = "call"
    /\ key \notin Checked
    /\ Called(key, check_crossref(Checker(matches, mismatches, suggestions, field_mismatches),
                                  key, bib_data.entries[key], FALSE, args))
    /\ pc' = IF Checked \cup {key} = DOMAIN bib_data.entries THEN "done" ELSE "call"
    /\ UNCHANGED <<args, bib_data, scholarly_session_active, not_found>>

NextCrossref == \E key \in DOMAIN bib_data.entries : CheckCrossref(key)

SpecCrossref == InitCrossref /\ [][NextCrossref]_vars

\* the DOIs of the records of a response
DoisOf(response) == {response.items[k].DOI : k \in 1..Len(response.items)}

\* the suggestions recorded for an entry
SuggestionsFor(key) == SelectSeq(suggestions, LAMBDA s : s.entry_id = key)

\* C16: when every entry is checked once, no two suggestions recorded for
\* the same entry carry the same DOI, whichever of the three searches found
\* them.
NoDuplicateDoi ==
    \A i, j \in 1..Len(suggestions) :
        (/\ i # j
         /\ suggestions[i].entry_id = suggestions[j].entry_id)
            => suggestions[i].doi # suggestions[j].doi

\* every entry is checked; the search by title and the two searches by
\* author, of two records each, all returned DoiA; Smith2020 has the two
\* suggestions DoiB, found by title, and DoiA, and Jones2021 has DoiA
NoDuplicateDoiWitness ==
    /\ pc = "done"
    /\ DoiA \in DoisOf(args.by_title)
    /\ Len(args.by_author_year.items) = 2
    /\ DoiA \in DoisOf(args.by_author_year)
    /\ Len(args.by_keywords.items) = 2
    /\ DoiA \in DoisOf(args.by_keywords)
    /\ Len(SuggestionsFor(Smith2020)) = 2
    /\ SuggestionsFor(Smith2020)[1].strategy = "title_search"
    /\ SuggestionsFor(Smith2020)[1].doi = DoiB
    /\ SuggestionsFor(Smith2020)[2].doi = DoiA
    /\ \E k \in 1..Len(suggestions) :
           suggestions[k].entry_id = Jones2021 /\ suggestions[k].doi = DoiA

(***************************************************************************)
(* update_with_apis: one step is one round of the loop over the entries.   *)
(* The service answers the requests of one run with the responses of args, *)
(* and finds nothing by author.                                            *)
(***************************************************************************)
SKIPPED_ENTRY_TYPES ==
    {<<"p", "h", "d", "t", "h", "e", "s", "i", "s">>, <<"m", "i", "s", "c">>,
     <<"o", "n", "l", "i", "n", "e">>}

Web2022 == <<"W", "e", "b", "2", "0", "2", "2">>

\* Smith2020 has the DOI DoiA, Jones2021 has no DOI, Web2022 is of a skipped
\* type
UpdatedData ==
    [entries |->
        [k \in {Smith2020, Jones2021, Web2022} |->
            IF k = Smith2020
            THEN TitledEntry(Article, SunsSeaSky, [n \in {"doi"} |-> DoiA])
            ELSE IF k = Jones2021
            THEN TitledEntry(Article, SunsSeaSky, <<>>)
            ELSE TitledEntry(<<"M", "i", "s", "c">>, FogsIce, [n \in {"doi"} |-> DoiB])]]

\* list(bib_data.entries.items())
UpdatedKeys == <<Smith2020, Jones2021, Web2022>>

Found(records) == {Response(TRUE, <<r>>) : r \in records}

InitUpdate ==
    /\ pc = "call"
    /\ args \in {[by_doi |-> d, by_title |-> t,
                  by_author_year |-> Response(TRUE, <<>>),
                  by_keywords |-> Response(TRUE, <<>>),
                  semantic_scholar |-> s] :
                    d \in {NoResponse, Response(TRUE, <<>>)}
                            \cup Found({CrossrefRecord(DoiA, SunsSeaSky),
                                        CrossrefRecord(DoiA, FogsIce)}),
                    t \in {NoResponse, Response(TRUE, <<>>)}
                            \cup Found({CrossrefRecord(DoiA, SunsSeaSky),
                                        CrossrefRecord(DoiB, SunsSeaSky),
                                        CrossrefRecord(DoiB, FogsIce)}),
                    s \in {NoResponse}
                            \cup Found({SemanticRecord(DoiA, SunsSeaSky),
                                        SemanticRecord(DoiB, SunsSeaSky),
                                        SemanticRecord(DoiA, FogsIce)})}
    /\ ret = <<>>
    /\ NewChecker
    /\ bib_data = UpdatedData

\* lines 1859-1860: Semantic Scholar is asked when Crossref returned nothing
Fallback(crossref_step, key, entry, response) ==
    IF crossref_step.ret.kind # "None" THEN crossref_step
    ELSE check_semantic_scholar(crossref_step.self, key, entry, TRUE, response)

\* lines 1866-1868: what a check returned replaces the entry
Stored(key, step) ==
    /\ CheckerBecomes(step.self)
    /\ ret' = Append(ret, [key |-> key, kind |-> step.ret.kind])
    /\ bib_data' = IF step.ret.kind = "None" THEN bib_data
                   ELSE [bib_data EXCEPT !.entries[key] = step.ret.value]

\* lines 1844-1870: the round of the loop for the entry key
UpdateEntry(key) ==
    /\ pc = "call"
    /\ Len(ret) < Len(UpdatedKeys)
    /\ key = UpdatedKeys[Len(ret) + 1]
    /\ IF Lower(bib_data.entries[key].type) \in SKIPPED_ENTRY_TYPES
       THEN /\ ret' = Append(ret, [key |-> key, kind |-> "skipped"])
            /\ UNCHANGED <<field_mismatches, matches, mismatches, suggestions, bib_data, scholarly_session_active, not_found>>
       ELSE Stored(key,
                   Fallback(check_crossref(Checker(matches, mismatches, suggestions,
                                                   field_mismatches),
                                           key, bib_data.entries[key], TRUE, args),
                            key, bib_data.entries[key], args.semantic_scholar))
    /\ pc' = IF Len(ret) + 1 = Len(UpdatedKeys) THEN "done" ELSE "call"
    /\ UNCHANGED <<args, scholarly_session_active, not_found>>

NextUpdate == \E key \in DOMAIN bib_data.entries : UpdateEntry(key)

SpecUpdate == InitUpdate /\ [][NextUpdate]_vars

\* the value is an Entry, not the dict of a response
IsEntry(value) == "fields" \in DOMAIN value

\* the first record of a response has a title that matches the title of the
\* entry and the DOI of the entry
FullMatch(entry, response, doi_key) ==
    /\ response.ok
    /\ response.items # <<>>
    /\ titles_match(EntryTitle(entry), response.items[1].title)
    /\ EntryDoi(entry) # <<>>
    /\ Lower(EntryDoi(entry)) = Lower(response.items[1][doi_key])

\* C17: an entry that update_with_apis has passed is an Entry, and it is
\* another one than before only when a record of the service matches it in
\* title and in DOI.
ReplacedOnFullMatch ==
    \A k \in 1..Len(ret) :
        LET old == UpdatedData.entries[ret[k].key]
            new == bib_data.entries[ret[k].key]
        IN  /\ IsEntry(new)
            /\ new # old =>
                  \/ FullMatch(old, args.by_doi, "DOI")
                  \/ FullMatch(old, args.by_title, "DOI")
                  \/ FullMatch(old, args.semantic_scholar, "doi")

(***************************************************************************)
(* add_missing_fields: the scan of the entries, then one step for every    *)
(* entry to process.  ret holds the entries that remain to be processed.   *)
(***************************************************************************)
\* lines 1573-1583: the target fields that the entry lacks, number and issue
\* being one field
RECURSIVE MissingFields(_, _)
MissingFields(entry, target_fields) ==
    IF target_fields = <<>> THEN <<>>
    ELSE LET field == Head(target_fields)
         IN  (IF field \in {"number", "issue"}
              THEN IF ~HasField(entry, "number") /\ ~HasField(entry, "issue")
                   THEN <<"number">> ELSE <<>>
              ELSE IF ~HasField(entry, field) THEN <<field>> ELSE <<>>)
                 \o MissingFields(entry, Tail(target_fields))

\* lines 1563-1587: the entries of a type that is not skipped, with a DOI
\* and a missing target field
RECURSIVE EntriesToProcess(_, _, _)
EntriesToProcess(data, keys, target_fields) ==
    IF keys = <<>> THEN <<>>
    ELSE LET entry == data.entries[Head(keys)]
             missing_fields == MissingFields(entry, target_fields)
         IN  (IF /\ Lower(entry.type) \notin SKIPPED_ENTRY_TYPES
                 /\ EntryDoi(entry) # <<>>
                 /\ missing_fields # <<>>
              THEN <<[key |-> Head(keys), missing_fields |-> missing_fields]>>
              ELSE <<>>) \o EntriesToProcess(data, Tail(keys), target_fields)

\* list.remove(x): without the first x
RECURSIVE Remove(_, _)
Remove(list, x) ==
    IF list = <<>> THEN <<>>
    ELSE IF Head(list) = x THEN Tail(list)
    ELSE <<Head(list)>> \o Remove(Tail(list), x)

\* lines 1665-1669 and 1771-1775: en dash and em dash become '--', and so
\* does '-' when the text has no '--'
DoubleHyphens(pages) ==
    LET dashed == StrReplace(StrReplace(pages, <<"<endash>">>, <<"-", "-">>),
                             <<"<emdash>">>, <<"-", "-">>)
    IN  IF Contains(dashed, <<"-", "-">>) THEN dashed
        ELSE StrReplace(dashed, <<"-">>, <<"-", "-">>)

\* lines 1638-1659: the title check of the lookup by DOI
TitleOk(title, api_title) ==
    IF title = <<>> \/ api_title = <<>> THEN TRUE
    ELSE TitleWords(Lower(title)) # {} /\ TitleWords(api_title) # {}

\* the field is written whenever the service has it
AddedAlways(filled, field, has, value) ==
    IF has
    THEN [entry |-> [filled.entry EXCEPT !.fields = WithField(@, field, value)],
          fields_still_missing |-> Remove(filled.fields_still_missing, field)]
    ELSE filled

\* the entry and the missing fields after one field is added, when it is
\* missing and the service has it
Added(filled, field, has, value) ==
    IF Contains(filled.fields_still_missing, <<field>>) /\ has
    THEN [entry |-> [filled.entry EXCEPT !.fields = WithField(@, field, value)],
          fields_still_missing |-> Remove(filled.fields_still_missing, field)]
    ELSE filled

\* a record of the Crossref lookup, and the bib of a Scholarly result; a key
\* that the record lacks is None
FieldsRecord(title, pages, volume, number) ==
    [title |-> title, page |-> pages, pages |-> pages, volume |-> volume,
     issue |-> number, number |-> number]

\* lines 1618-1691: the fields taken from Crossref
FromCrossref(filled, title, response) ==
    IF ~response.ok \/ response.items = <<>> THEN filled
    ELSE IF ~TitleOk(title, Lower(response.items[1].title)) THEN filled
    ELSE Added(Added(Added(filled,
                           "pages",
                           response.items[1].page # None,
                           clean_api_field(DoubleHyphens(response.items[1].page))),
                     "volume",
                     response.items[1].volume # None,
                     clean_api_field(response.items[1].volume)),
               "number",
               response.items[1].issue # None,
               clean_api_field(response.items[1].issue))

\* re.sub(r'\{([^}]*)\}', r'\1', text): the braces of every pair go
RECURSIVE Unbrace(_, _)
Unbrace(text, i) ==
    IF i > Len(text) THEN <<>>
    ELSE IF text[i] = "{" /\ \E j \in (i + 1)..Len(text) : text[j] = "}"
    THEN LET j == CHOOSE j \in (i + 1)..Len(text) :
                      /\ text[j] = "}"
                      /\ \A k \in (i + 1)..(j - 1) : text[k] # "}"
         IN  SubSeq(text, i + 1, j - 1) \o Unbrace(text, j + 1)
    ELSE <<text[i]>> \o Unbrace(text, i + 1)

\* the end of the run of ASCII letters that starts at i
RECURSIVE LettersEnd(_, _)
LettersEnd(text, i) ==
    IF i <= Len(text) /\ text[i] \in AsciiLetters THEN LettersEnd(text, i + 1)
    ELSE i

\* re.sub(r'\\[a-zA-Z]+\{([^}]*)\}', r'\1', text)
RECURSIVE Uncommand(_, _)
Uncommand(text, i) ==
    IF i > Len(text) THEN <<>>
    ELSE LET e == LettersEnd(text, i + 1)
         IN  IF /\ text[i] = "\\"
                /\ e > i + 1
                /\ e <= Len(text)
                /\ text[e] = "{"
                /\ \E j \in (e + 1)..Len(text) : text[j] = "}"
             THEN LET j == CHOOSE j \in (e + 1)..Len(text) :
                               /\ text[j] = "}"
                               /\ \A k \in (e + 1)..(j - 1) : text[k] # "}"
                  IN  SubSeq(text, e + 1, j - 1) \o Uncommand(text, j + 1)
             ELSE <<text[i]>> \o Uncommand(text, i + 1)

\* re.sub(r'\\[a-zA-Z]+', '', text)
RECURSIVE DropCommands(_, _)
DropCommands(text, i) ==
    IF i > Len(text) THEN <<>>
    ELSE LET e == LettersEnd(text, i + 1)
         IN  IF text[i] = "\\" /\ e > i + 1 THEN DropCommands(text, e)
             ELSE <<text[i]>> \o DropCommands(text, i + 1)

\* lines 1711-1718: the title that Scholarly is asked for
SearchTitle(title) ==
    Join(SplitWords(StrReplace(DropCommands(Uncommand(Unbrace(title, 1), 1), 1),
                               <<"-", "-">>, <<"-">>)),
         <<" ">>)

\* lines 1754-1763: the word overlap of the titles is above 0.5
ScholarlyTitleOk(entry_words, gs_words) ==
    /\ entry_words # {}
    /\ gs_words # {}
    /\ Above(Jaccard(entry_words, gs_words), 5)

\* lines 1699-1793: the fields taken from a Scholarly result
FromScholarly(filled, title, bib) ==
    IF ~ScholarlyTitleOk(TitleWords(Lower(SearchTitle(title))),
                         TitleWords(Lower(bib.title)))
    THEN filled
    ELSE Added(Added(Added(filled, "pages", Truthy(bib.pages), DoubleHyphens(bib.pages)),
                     "volume", Truthy(bib.volume), bib.volume),
               "number",
               Truthy(bib.number) \/ Truthy(bib.issue),
               IF Truthy(bib.number) THEN bib.number ELSE bib.issue)

\* what the search of Scholarly gives: a result, no result, an exception, or
\* an exception that tells of blocking
ScholarlyResult(kind, bib) == [kind |-> kind, bib |-> bib]

\* the entry after its round
Processed(entry, missing_fields, use_scholarly, session_active, api) ==
    LET title == EntryTitle(entry)
        crossref == FromCrossref([entry |-> entry, fields_still_missing |-> missing_fields],
                                 title, api.by_doi)
    IN  IF /\ crossref.fields_still_missing # <<>>
           /\ use_scholarly
           /\ session_active
           /\ title # <<>>
           /\ api.scholarly.kind = "result"
        THEN FromScholarly(crossref, title, api.scholarly.bib).entry
        ELSE crossref.entry

\* line 1737: the session ends when Scholarly is asked and blocks
SessionAfter(entry, missing_fields, use_scholarly, session_active, api) ==
    LET title == EntryTitle(entry)
        crossref == FromCrossref([entry |-> entry, fields_still_missing |-> missing_fields],
                                 title, api.by_doi)
    IN  IF /\ crossref.fields_still_missing # <<>>
           /\ use_scholarly
           /\ session_active
           /\ title # <<>>
           /\ api.scholarly.kind = "blocked"
        THEN FALSE
        ELSE session_active

Tech2023 == <<"T", "e", "c", "h", "2", "0", "2", "3">>
Full2024 == <<"F", "u", "l", "l", "2", "0", "2", "4">>

\* a field with the value 1, and the fields of names, all 1
One == <<"1">>
Ones(names) == [n \in names |-> One]

\* Smith2020 lacks the three fields, Jones2021 has volume and issue,
\* Web2022 is of a skipped type, Tech2023 has no DOI, Full2024 has pages,
\* volume and issue
AddedData ==
    [entries |->
        [k \in {Smith2020, Jones2021, Web2022, Tech2023, Full2024} |->
            CASE k = Smith2020 ->
                    TitledEntry(Article, <<"S", "u", "n", "s", " ", "{", "S", "e", "a", "}", " ", "S", "k", "y">>,
                                [n \in {"doi"} |-> DoiA])
              [] k = Jones2021 ->
                    TitledEntry(Article, SunsSeaSky,
                                WithField(Ones({"volume", "issue"}), "doi", DoiB))
              [] k = Web2022 ->
                    TitledEntry(<<"M", "i", "s", "c">>, FogsIce, [n \in {"doi"} |-> DoiB])
              [] k = Tech2023 ->
                    TitledEntry(Article, FogsIce, <<>>)
              [] k = Full2024 ->
                    TitledEntry(Article, SunsSeaSky,
                                WithField(Ones({"pages", "volume", "issue"}), "doi", DoiA))]]

\* bib_data.entries.items()
AddedKeys == <<Smith2020, Jones2021, Web2022, Tech2023, Full2024>>

\* the default target fields, and number under its two names
TargetFields == {<<"pages", "number", "volume">>, <<"number", "issue">>}

FieldsRecords(titles, pages) ==
    {FieldsRecord(t, p, v, n) :
        t \in titles, p \in pages, v \in {None, <<"7">>}, n \in {None, <<"2">>}}

InitAdd ==
    /\ pc = "scan"
    /\ args \in {[target_fields |-> f, use_scholarly |-> u, by_doi |-> d, scholarly |-> s] :
                    f \in TargetFields,
                    u \in BOOLEAN,
                    d \in {NoResponse}
                            \cup Found(FieldsRecords({SunsSeaSky, <<>>},
                                                     {None, <<"3", "-", "4">>, <<"3", "<endash>", "4">>})),
                    s \in {ScholarlyResult(k, FieldsRecord(<<>>, None, None, None)) :
                                k \in {"none", "error", "blocked"}}
                            \cup {ScholarlyResult("result", b) :
                                    b \in FieldsRecords({SunsSeaSky, FogsIce},
                                                        {None, <<"5", "-", "6">>})}}
    /\ ret = <<>>
    /\ field_mismatches = <<>>
    /\ matches = <<>>
    /\ mismatches = <<>>
    /\ suggestions = <<>>
    /\ scholarly_session_active = args.use_scholarly
    /\ not_found = <<>>
    /\ bib_data = AddedData

\* lines 1559-1599: the entries to process are listed
ScanEntries ==
    /\ pc = "scan"
    /\ ret' = EntriesToProcess(bib_data, AddedKeys, args.target_fields)
    /\ pc' = IF EntriesToProcess(bib_data, AddedKeys, args.target_fields) = <<>>
             THEN "done" ELSE "process"
    /\ UNCHANGED <<args, field_mismatches, matches, mismatches, suggestions, bib_data, scholarly_session_active, not_found>>

\* lines 1607-1825: the round of the first entry that remains
AddMissingFields ==
    /\ pc = "process"
    /\ bib_data' = [bib_data EXCEPT !.entries[Head(ret).key] =
                       Processed(@, Head(ret).missing_fields, args.use_scholarly,
                                 scholarly_session_active, args)]
    /\ scholarly_session_active' =
           SessionAfter(bib_data.entries[Head(ret).key], Head(ret).missing_fields,
                        args.use_scholarly, scholarly_session_active, args)
    /\ ret' = Tail(ret)
    /\ pc' = IF Tail(ret) = <<>> THEN "done" ELSE "process"
    /\ UNCHANGED <<args, field_mismatches, matches, mismatches, suggestions, not_found>>

NextAdd == ScanEntries \/ AddMissingFields

SpecAdd == InitAdd /\ [][NextAdd]_vars

\* the entry has every target field, number counting as present when issue
\* is
HasTargets(entry, target_fields) ==
    \A k \in 1..Len(target_fields) :
        \/ HasField(entry, target_fields[k])
        \/ /\ target_fields[k] \in {"number", "issue"}
           /\ HasField(entry, "number") \/ HasField(entry, "issue")

\* the entry has the type, the persons and every field of old, with the
\* same values
Keeps(entry, old) ==
    /\ entry.type = old.type
    /\ entry.persons = old.persons
    /\ \A n \in DOMAIN old.fields :
           HasField(entry, n) /\ entry.fields[n] = old.fields[n]

\* C18: add_missing_fields changes and removes no field that an entry had,
\* adds no field other than pages, volume and number, and leaves unchanged
\* every entry without DOI, of a skipped type, or with all the target
\* fields, number counting as present when issue is.
OnlyMissingAdded ==
    \A key \in DOMAIN bib_data.entries :
        LET old == AddedData.entries[key]
            entry == bib_data.entries[key]
        IN  /\ Keeps(entry, old)
            /\ DOMAIN entry.fields \ DOMAIN old.fields \subseteq {"pages", "volume", "number"}
            /\ (\/ EntryDoi(old) = <<>>
                \/ Lower(old.type) \in SKIPPED_ENTRY_TYPES
                \/ HasTargets(old, args.target_fields)) => entry = old

\* every round is over; Smith2020 has the pages of Crossref with a double
\* hyphen, its volume, and the number of Scholarly; Jones2021, whose issue
\* stands for the number, has the pages and no number; Full2024 is as before
OnlyMissingAddedWitness ==
    /\ pc = "done"
    /\ args.target_fields = <<"pages", "number", "volume">>
    /\ args.by_doi.ok
    /\ args.by_doi.items[1].issue = None
    /\ args.scholarly.kind = "result"
    /\ DOMAIN bib_data.entries[Smith2020].fields = {"title", "doi", "pages", "volume", "number"}
    /\ bib_data.entries[Smith2020].fields["pages"] = <<"3", "-", "-", "4">>
    /\ bib_data.entries[Smith2020].fields["volume"] = <<"7">>
    /\ bib_data.entries[Smith2020].fields["number"] = <<"2">>
    /\ DOMAIN bib_data.entries[Jones2021].fields = {"title", "doi", "pages", "volume", "issue"}
    /\ bib_data.entries[Jones2021].fields["volume"] = One
    /\ bib_data.entries[Full2024] = AddedData.entries[Full2024]

(***************************************************************************)
(* The two forms of one name (test_de_fornel)                              *)
(***************************************************************************)
FormGivenWords ==
    {[text |-> <<"F", ".">>, norm |-> <<"f", ".">>, ini |-> <<"F">>],
     [text |-> <<"F", "r", "e", "d", "e", "r", "i", "q", "u", "e">>,
      norm |-> <<"f", "r", "e", "d", "e", "r", "i", "q", "u", "e">>, ini |-> <<"F">>],
     [text |-> <<"d", "e">>, norm |-> <<"d", "e">>, ini |-> <<>>]}

FormSurnameWords ==
    {[text |-> <<"F", "o", "r", "n", "e", "l">>, norm |-> <<"f", "o", "r", "n", "e", "l">>,
      ini |-> <<"F">>],
     [text |-> <<"M", "{", "\\", "\"", "u", "}", "l", "l", "e", "r">>,
      norm |-> <<"m", "u", "l", "l", "e", "r">>, ini |-> <<"M">>],
     [text |-> <<"J", "r", ".">>, norm |-> <<"j", "r", ".">>, ini |-> <<>>]}

InitForms ==
    /\ pc = "call"
    /\ args \in {[given |-> g, particles |-> p, surname |-> sn,
                  comma_name |-> CommaName(g, p, sn),
                  space_name |-> SpaceName(g, p, sn)] :
                    g \in SeqsUpTo(FormGivenWords, 1, MaxGiven),
                    p \in SeqsUpTo(ParticleWords, 0, MaxParticles),
                    sn \in FormSurnameWords}
    /\ ret = <<>>
    /\ NewChecker
    /\ bib_data = NoData

\* the two calls of test_de_fornel
ExtractBothForms ==
    /\ pc = "call"
    /\ ret' = [comma |-> extract_author_components(args.comma_name),
               space |-> extract_author_components(args.space_name)]
    /\ pc' = "done"
    /\ UNCHANGED <<args, field_mismatches, matches, mismatches, suggestions, bib_data, scholarly_session_active, not_found>>

NextForms == ExtractBothForms

SpecForms == InitForms /\ [][NextForms]_vars

\* C19: for a given name G without a comma, a run P of particles and a
\* one-token surname S that is neither a particle nor a generational
\* suffix, 'P S, G' and 'G P S' parse to the same surname.
SameSurname ==
    (/\ pc = "done"
     /\ ~IsParticleWord(args.surname)
     /\ ~IsSuffixWord(args.surname)) => ret.comma[1] = ret.space[1]

\* 'De Fornel, Frederique' and 'Frederique De Fornel' both give 'fornel'
SameSurnameWitness ==
    /\ pc = "done"
    /\ args.comma_name = <<"D", "e", " ", "F", "o", "r", "n", "e", "l", ",", " ",
                           "F", "r", "e", "d", "e", "r", "i", "q", "u", "e">>
    /\ args.space_name = <<"F", "r", "e", "d", "e", "r", "i", "q", "u", "e", " ",
                           "D", "e", " ", "F", "o", "r", "n", "e", "l">>
    /\ ret.comma[1] = <<"f", "o", "r", "n", "e", "l">>
    /\ ret.space[1] = <<"f", "o", "r", "n", "e", "l">>

(***************************************************************************)
(* A name that ends in a generational suffix                               *)
(***************************************************************************)
\* norm is what the suffix leaves in the particles: lowercase, without the
\* periods at its end
SuffixWords ==
    {[text |-> <<"J", "r", ".">>, norm |-> <<"j", "r">>, ini |-> <<>>],
     [text |-> <<"I", "I", "I">>, norm |-> <<"i", "i", "i">>, ini |-> <<>>]}

\* 'G p1 ... pk S X' for a suffix X
InitSuffix ==
    /\ pc = "call"
    /\ args \in {[comma |-> FALSE, given |-> g, particles |-> p, surname |-> sn,
                  suffix |-> x,
                  name |-> SpaceName(g, p, sn) \o <<" ">> \o x.text] :
                    g \in SeqsUpTo(GivenWords, 1, MaxGiven),
                    p \in SeqsUpTo(ParticleWords, 0, MaxParticles),
                    sn \in SurnameWords,
                    x \in SuffixWords}
    /\ ret = <<>>
    /\ NewChecker
    /\ bib_data = NoData

SpecSuffix == InitSuffix /\ [][NextName]_vars

\* C20: for a name without a comma whose last token is a generational
\* suffix, the suffix is among the particles and the surname is the token
\* just before the suffix, also when particles precede that token, which
\* are among the particles too.
SuffixNotSurname ==
    (/\ pc = "done"
     /\ ~IsSuffixWord(args.surname)) =>
        /\ ret[1] = args.surname.norm
        /\ args.suffix.norm \in Range(ret[3])
        /\ Range(Norms(args.particles)) \subseteq Range(ret[3])

(***************************************************************************)
(* One call of _compare_fields with author lists in different orders       *)
(***************************************************************************)
JonesA == <<"J", "o", "n", "e", "s", ",", " ", "A">>

\* str(person) of the local authors
OrderedLocalNames == {SmithJ, JonesA, Others}

\* the items of the external author list
OrderedExternalItems ==
    {[given |-> <<"J">>, family |-> <<"S", "m", "i", "t", "h">>],
     [given |-> <<"A">>, family |-> <<"J", "o", "n", "e", "s">>]}

InitOrder ==
    /\ pc = "call"
    /\ args \in {[key |-> <<"S", "m", "i", "t", "h", "2", "0", "2", "0">>,
                  entry |-> Entry(NoFields, [role \in {"author"} |-> a]),
                  api_result |-> ApiResult(x),
                  source |-> t] :
                    a \in SeqsUpTo(OrderedLocalNames, 2, MaxLocalAuthors),
                    x \in SeqsUpTo(OrderedExternalItems, 2, MaxLocalAuthors),
                    t \in {"crossref", "semantic_scholar"}}
    /\ ret = None
    /\ NewChecker
    /\ bib_data = NoData

SpecOrder == InitOrder /\ [][NextCompare]_vars

\* the surnames of the local authors and of the external authors of the call
LocalSurnames ==
    [k \in 1..Len(LocalAuthors) |-> AuthorInfo(LocalAuthors[k]).lastname]
ExternalSurnames ==
    [k \in 1..Len(args.api_result.author) |->
        AuthorInfo(ApiAuthorNames(args.api_result, args.source)[k]).lastname]

\* the one finding of position i is an order mismatch that names the first
\* other place of the surname in the external list, or tells that the
\* surname is nowhere in it
OrderFinding(i, found, local, external) ==
    /\ Cardinality(found) = 1
    /\ LET places == {j \in 1..Len(external) : j # i /\ external[j] = local[i]}
       IN  \A k \in found :
              IF places = {}
              THEN RecordedIssues[k].kind = "author_not_in_api"
              ELSE /\ RecordedIssues[k].kind = "author_order"
                   /\ RecordedIssues[k].other \in places
                   /\ \A j \in places : RecordedIssues[k].other <= j

\* the positions from the second up to the shorter list whose local surname
\* is not 'others' and differs from the external surname
DifferingPositions(local, external) ==
    {i \in 2..Min(Len(local), Len(external)) :
        local[i] # Others /\ local[i] # external[i]}

\* C21: for every author position from the second up to the shorter list
\* whose local surname is not 'others' and differs from the external
\* surname, the call records exactly one finding: an order mismatch naming
\* the first other external position with that surname, or else a
\* not-in-API finding.
OrderReported ==
    pc # "call" =>
        \A i \in DifferingPositions(LocalSurnames, ExternalSurnames) :
            OrderFinding(i, FindingsAt(i, SurnameKinds \cup InitialsKinds),
                         LocalSurnames, ExternalSurnames)

(***************************************************************************)
(* One call of _compare_fields with the citation key spelled after the     *)
(* first author (test_citation_key)                                        *)
(***************************************************************************)
\* a first author in the form 'Last, First' and in the form 'First Last',
\* and the author fragments of the keys spelled after the surname: the bare
\* surname, the surname after its particles, the double-letter spelling
KeyedAuthors ==
    {[comma |-> <<"d", "e", " ", "F", "o", "r", "n", "e", "l", ",", " ", "F", ".">>,
      space |-> <<"F", ".", " ", "d", "e", " ", "F", "o", "r", "n", "e", "l">>,
      fragments |-> {<<"F", "o", "r", "n", "e", "l">>,
                     <<"d", "e", "F", "o", "r", "n", "e", "l">>}],
     [comma |-> <<"E", "n", "g", "s", "t", "r", Precomposed("o", "umlaut"), "m", ",", " ", "D", ".">>,
      space |-> <<"D", ".", " ", "E", "n", "g", "s", "t", "r", Precomposed("o", "umlaut"), "m">>,
      fragments |-> {<<"E", "n", "g", "s", "t", "r", "o", "m">>,
                     <<"E", "n", "g", "s", "t", "r", "o", "e", "m">>}],
     [comma |-> <<"M", Precomposed("u", "umlaut"), "l", "l", "e", "r", ",", " ", "A", ".">>,
      space |-> <<"A", ".", " ", "M", Precomposed("u", "umlaut"), "l", "l", "e", "r">>,
      fragments |-> {<<"M", "u", "l", "l", "e", "r">>,
                     <<"M", "u", "e", "l", "l", "e", "r">>}]}

\* the author fragment of a key spelled after somebody else
SmithFragment == <<"S", "m", "i", "t", "h">>

InitKeyAuthor ==
    /\ pc = "call"
    /\ args \in {[key |-> f \o <<"2", "0", "1", "2">>,
                  entry |-> Entry(NoFields, [role \in {"author"} |-> <<n>>]),
                  api_result |-> ApiResult(<<x>>),
                  source |-> t,
                  author |-> p,
                  fragment |-> f] :
                    p \in KeyedAuthors,
                    n \in UNION {{q.comma, q.space} : q \in KeyedAuthors},
                    f \in UNION {q.fragments : q \in KeyedAuthors} \cup {SmithFragment},
                    x \in ExternalAuthorItems,
                    t \in {"crossref", "semantic_scholar"}}
    /\ args.entry.persons["author"][1] \in {args.author.comma, args.author.space}
    /\ args.fragment \in args.author.fragments \cup {SmithFragment}
    /\ ret = None
    /\ NewChecker
    /\ bib_data = NoData

SpecKeyAuthor == InitKeyAuthor /\ [][NextCompare]_vars

\* C22: no citation-key-author mismatch is recorded when the author
\* fragment of the key is the bare surname of the first local author, the
\* surname after its particles, or the double-letter spelling of the
\* surname, in the form 'Last, First' and in the form 'First Last'.
KeyAuthorAccepted ==
    (/\ pc # "call"
     /\ args.fragment \in args.author.fragments) => ~Recorded("key_author")

(***************************************************************************)
(* The variants of one text                                                *)
(***************************************************************************)
TransliteratedAlphabet ==
    {Precomposed("u", "umlaut"), Precomposed("e", "acute"), "{", "-", ",", "m"}

InitVariants ==
    /\ pc = "call"
    /\ args \in {<<x>> : x \in StringsUpTo(TransliteratedAlphabet, MaxTextLen)}
    /\ ret = <<>>
    /\ NewChecker
    /\ bib_data = NoData

NormalizeWithTransliterations ==
    /\ pc = "call"
    /\ ret' = normalize_with_transliterations(args[1])
    /\ pc' = "done"
    /\ UNCHANGED <<args, field_mismatches, matches, mismatches, suggestions, bib_data, scholarly_session_active, not_found>>

NextVariants == NormalizeWithTransliterations

SpecVariants == InitVariants /\ [][NextVariants]_vars

\* C23: every string that normalize_with_transliterations returns is a
\* normalized form: it has no brace, no backslash of an accent command, no
\* accented character and no hyphen.
VariantsNormalized ==
    pc = "done" =>
        \A k \in 1..Len(ret) : \A i \in 1..Len(ret[k]) :
            /\ ret[k][i] \notin {"{", "}", "\\", "-"}
            /\ ~IsAccented(ret[k][i])

(***************************************************************************)
(* The score of one suggestion                                             *)
(***************************************************************************)
\* the number of words of the two titles together
MaxUnion == 7

\* len(entry_words & sug_words) / len(entry_words | sug_words)
Similarities == {s \in (0..MaxUnion) \X (1..MaxUnion) : s[1] <= s[2]}

InitScore ==
    /\ pc = "call"
    /\ args \in [title_similarity : Similarities,
                 author_matches : BOOLEAN,
                 year_matches : BOOLEAN,
                 strategy : {"title_search", "author_year", "author_keywords"}]
    /\ ret = 0
    /\ NewChecker
    /\ bib_data = NoData

\* lines 1953-1981 for one suggestion
ScoreSuggestion ==
    /\ pc = "call"
    /\ ret' = Score(args.title_similarity, args.author_matches, args.year_matches,
                    StrategyBonus(args))
    /\ pc' = "done"
    /\ UNCHANGED <<args, field_mismatches, matches, mismatches, suggestions, bib_data, scholarly_session_active, not_found>>

NextScore == ScoreSuggestion

SpecScore == InitScore /\ [][NextScore]_vars

\* the score without the bonuses for the author, the year and the strategy
BaseScore ==
    ret - (IF args.author_matches THEN 30 ELSE 0)
        - (IF args.year_matches THEN 20 ELSE 0)
        - StrategyBonus(args)

\* b is an integer nearest to 100 * n / d
Nearest(b, n, d) ==
    /\ 2 * (100 * n - d * b) <= d
    /\ 2 * (d * b - 100 * n) <= d

\* C24: for a title similarity of at most 0.5 the score before the
\* bonuses is the integer nearest to 100 times the similarity.
BaseScoreRounded ==
    (pc = "done" /\ ~Above(args.title_similarity, 5)) =>
        Nearest(BaseScore, args.title_similarity[1], args.title_similarity[2])

(***************************************************************************)
(* Ranking the suggestions of one entry, and ranking the result again      *)
(***************************************************************************)
\* titles of similarity 1 (two spellings), 2/3 and 3/5 to the local title
RerankedTitles ==
    {<<"S", "u", "n", " ", "S", "e", "a", " ", "S", "k", "y">>,
     <<"S", "k", "y", ",", " ", "s", "e", "a", ",", " ", "s", "u", "n">>,
     <<"S", "u", "n", ",", " ", "s", "e", "a">>,
     <<"S", "u", "n", " ", "S", "e", "a", " ", "S", "k", "y", " ", "F", "o", "g", " ", "I", "c", "e">>}

\* authors and year of the local entry, or neither
RerankedAuthorsYears ==
    {<< <<"J", " ", "S", "m", "i", "t", "h">>, <<"2", "0", "2", "0">> >>,
     << <<"N", "/", "A">>, <<"N", "/", "A">> >>}

\* found by the search by title; with author and year the title of
\* similarity 3/5 scores 150, as the title of similarity 2/3 with the author
RerankedSuggestions ==
    {Suggestion(t, ay[1], ay[2], "title_search") :
        t \in RerankedTitles, ay \in RerankedAuthorsYears}

InitRerank ==
    /\ pc = "call"
    /\ args \in {[entry_id |-> Smith2020, entry_suggestions |-> p] :
                    p \in SeqsUpTo(RerankedSuggestions, 1, MaxPool)}
    /\ ret = <<>>
    /\ NewChecker
    /\ bib_data \in Databases

\* the first call
RankFirst ==
    /\ pc = "call"
    /\ pc' = "ranked"
    /\ ret' = <<rank_suggestions(args.entry_id, args.entry_suggestions, bib_data)>>
    /\ UNCHANGED <<args, field_mismatches, matches, mismatches, suggestions, bib_data, scholarly_session_active, not_found>>

\* the second call, on the list the first returned
RankAgain ==
    /\ pc = "ranked"
    /\ pc' = "done"
    /\ ret' = Append(ret, rank_suggestions(args.entry_id, ret[1], bib_data))
    /\ UNCHANGED <<args, field_mismatches, matches, mismatches, suggestions, bib_data, scholarly_session_active, not_found>>

NextRerank == RankFirst \/ RankAgain

SpecRerank == InitRerank /\ [][NextRerank]_vars

\* the orders of n places
Orders(n) == {f \in [1..n -> 1..n] : \A i, j \in 1..n : i # j => f[i] # f[j]}

\* out is input in the order f, the keys do not increase along it, and
\* items of equal key are in the order of input
StablyRankedBy(f, out, input, keys) ==
    /\ \A k \in 1..Len(input) : out[k] = input[f[k]]
    /\ \A i, j \in 1..Len(input) :
          i < j => /\ ~KeyLess(keys[f[i]], keys[f[j]])
                   /\ KeyLess(keys[f[j]], keys[f[i]]) \/ f[i] < f[j]

StablyRanked(out, input, keys) ==
    /\ Len(out) = Len(input)
    /\ \E f \in Orders(Len(input)) : StablyRankedBy(f, out, input, keys)

\* (score, title similarity) of the suggestions given to the first call
InputKeys ==
    LET entry == bib_data.entries[args.entry_id]
    IN  ScoredSuggestions(args.entry_suggestions, Lower(EntryTitle(entry)),
                          EntryFirstAuthorLastname(entry), EntryYear(entry))

\* C25: for a local entry of the database, _rank_suggestions returns its
\* input in an order along which the pair (score, title similarity) does
\* not increase, suggestions of equal pair keeping their input order, and
\* ranking the returned list again returns the same list.
RankedOnce ==
    (pc = "done" /\ args.entry_id \in DOMAIN bib_data.entries) =>
        /\ StablyRanked(ret[1], args.entry_suggestions, InputKeys)
        /\ ret[2] = ret[1]

\* the first call moved the second suggestion, of the same score and the
\* higher title similarity, before the first, and the second call left the
\* list as it was
RankedOnceWitness ==
    /\ pc = "done"
    /\ args.entry_id \in DOMAIN bib_data.entries
    /\ Len(args.entry_suggestions) = 2
    /\ args.entry_suggestions[1] # args.entry_suggestions[2]
    /\ ret[1] = <<args.entry_suggestions[2], args.entry_suggestions[1]>>
    /\ ret[2] = ret[1]
    /\ InputKeys[1].score = InputKeys[2].score
    /\ KeyLess(InputKeys[1], InputKeys[2])

(***************************************************************************)
(* The macro and the Unicode character of a special letter                 *)
(***************************************************************************)
\* the special letters that have a macro, and the name of the macro
SpecialMacros ==
    {<<"<o/>", <<"o">> >>, <<"<O/>", <<"O">> >>,
     <<"<ae>", <<"a", "e">> >>, <<"<AE>", <<"A", "E">> >>,
     <<"<oe>", <<"o", "e">> >>, <<"<OE>", <<"O", "E">> >>,
     <<Precomposed("a", "ring"), <<"a", "a">> >>,
     <<Precomposed("A", "ring"), <<"A", "A">> >>,
     <<"<ss>", <<"s", "s">> >>}

\* the spellings of a macro: bare, braced, before {} and before a space
MacroForm(form, name) ==
    CASE form = 1 -> <<"\\">> \o name
      [] form = 2 -> <<"{", "\\">> \o name \o <<"}">>
      [] form = 3 -> <<"\\">> \o name \o <<"{", "}">>
      [] form = 4 -> <<"\\">> \o name \o <<" ">>

SpecialInputs ==
    {[letter |-> m[1], form |-> f,
      latex |-> pre \o MacroForm(f, m[2]) \o suf,
      unicode |-> pre \o <<m[1]>> \o suf] :
        m \in SpecialMacros, f \in 1..4,
        pre \in StringsUpTo(ContextLetters, MaxContext),
        suf \in StringsUpTo(ContextLetters, MaxContext)}

InitSpecial ==
    /\ pc = "latex"
    /\ args \in SpecialInputs
    /\ ret = <<>>
    /\ NewChecker
    /\ bib_data = NoData

SpecSpecial == InitSpecial /\ [][NextAccent]_vars

\* C26: for each special letter that has a macro, the text with the macro,
\* bare, braced, before {} or before a space, and the text with the
\* Unicode character normalize to the same string.
SpecialFormsAgree == pc = "done" => \A k \in 1..Len(ret) : ret[k] = ret[1]

(***************************************************************************)
(* journals_match_fuzzy called with its two names in either order          *)
(***************************************************************************)
\* number of words of a journal name
MaxJournalWords == 3

\* words of which some are prefixes of others
PrefixWords ==
    <<<<"P","h","y","s">>, <<"P","h","y","s","i","c","s">>,
      <<"P","h","y","s","i","c","a","l">>, <<"L","e","t","t">>,
      <<"C","h","e","m">>>>

\* the words of pool that mask selects, from position k on, in their order
RECURSIVE Chosen(_, _, _)
Chosen(pool, mask, k) ==
    IF k > Len(pool) THEN <<>>
    ELSE (IF mask[k] THEN <<pool[k]>> ELSE <<>>) \o Chosen(pool, mask, k + 1)

PrefixNames ==
    {Join(Chosen(PrefixWords, mask, 1), <<" ">>) :
        mask \in {m \in [1..Len(PrefixWords) -> BOOLEAN] :
                    Cardinality({k \in 1..Len(PrefixWords) : m[k]})
                        \in 1..MaxJournalWords}}

Thresholds == {<<4, 10>>, <<6, 10>>, <<8, 10>>}

InitSymmetric ==
    /\ pc = "call"
    /\ args \in [journal1 : PrefixNames, journal2 : PrefixNames,
                 threshold : Thresholds]
    /\ ret = <<>>
    /\ NewChecker
    /\ bib_data = NoData

JournalsMatchBothWays ==
    /\ pc = "call"
    /\ ret' = [forward |-> journals_match_fuzzy(args.journal1, args.journal2,
                                                args.threshold),
               backward |-> journals_match_fuzzy(args.journal2, args.journal1,
                                                 args.threshold)]
    /\ pc' = "done"
    /\ UNCHANGED <<args, field_mismatches, matches, mismatches, suggestions, bib_data, scholarly_session_active, not_found>>

NextSymmetric == JournalsMatchBothWays

SpecSymmetric == InitSymmetric /\ [][NextSymmetric]_vars

\* C27: journals_match_fuzzy gives the same verdict for a pair of names
\* and a threshold whichever of the two names comes first, also when the
\* count of prefix pairs decides.
MatchSymmetric == pc = "done" => ret.forward = ret.backward

(***************************************************************************)
(* validate_all_entries: one step is one round of the loop over the        *)
(* entries.  The services answer the requests of one run with the          *)
(* responses of args.                                                      *)
(***************************************************************************)
\* any(m['entry_id'] == key and m['source'] == source for m in self.matches)
MatchedBy(self, key, source) ==
    \E k \in 1..Len(self.matches) :
        self.matches[k].entry_id = key /\ self.matches[k].source = source

\* any(m['entry_id'] == key for m in self.matches)
Matched(self, key) ==
    \E k \in 1..Len(self.matches) : self.matches[k].entry_id = key

\* lines 1325-1360: the first result of Google Scholar, converted to the
\* shape of a Semantic Scholar record (lines 1334-1340)
ScholarlyFirst(self, key, entry, title, result) ==
    IF titles_match(Lower(title), Lower(result.title))
    THEN Compared(WithMatch(self, key, "scholarly", title, Lower(result.title)),
                  compare_fields(key, entry, result, "scholarly"),
                  key, "scholarly", TRUE, Returned("dict", result))
    ELSE Step([self EXCEPT !.mismatches =
                  Append(@, [entry_id |-> key, title |-> title,
                             api_title |-> Lower(result.title)])],
              TRUE, ReturnedNone)

\* check_scholarly
check_scholarly(self, key, entry, use_scholarly, response) ==
    IF ~use_scholarly \/ EntryTitle(entry) = <<>> \/ ~response.ok \/ response.items = <<>>
    THEN Step(self, TRUE, ReturnedNone)
    ELSE ScholarlyFirst(self, key, entry, EntryTitle(entry), response.items[1])

\* lines 1524-1527: Semantic Scholar is asked when Crossref returned nothing
\* and recorded no match for the entry
SemanticFallback(crossref_step, key, entry, response) ==
    IF crossref_step.ret.kind = "None" /\ ~MatchedBy(crossref_step.self, key, "crossref")
    THEN check_semantic_scholar(crossref_step.self, key, entry, FALSE, response).self
    ELSE crossref_step.self

\* lines 1529-1532: Google Scholar is asked when the entry has no match yet
ScholarlyFallback(self, key, entry, use_scholarly, response) ==
    IF use_scholarly /\ ~Matched(self, key)
    THEN check_scholarly(self, key, entry, use_scholarly, response).self
    ELSE self

\* lines 1534-1536: an entry without match is listed in not_found
Tracked(self, key) ==
    /\ CheckerBecomes(self)
    /\ not_found' = IF Matched(self, key) THEN not_found ELSE Append(not_found, key)

\* a record with one author
WithAuthor(record, given, family) ==
    [record EXCEPT !.author = <<[given |-> given, family |-> family]>>,
                   !.authors = <<[name |-> given \o <<" ">> \o family]>>]

\* Smith2020 has the DOI DoiA and the author 'Smith, J'; Jones2021 has the
\* DOI DoiB and the author list 'others'; Web2022 is of a skipped type
ValidatedData ==
    [entries |->
        [k \in {Smith2020, Jones2021, Web2022} |->
            IF k = Smith2020
            THEN TitledEntry(Article, SunsSeaSky,
                             WithField([n \in {"year"} |-> <<"2", "0", "2", "0">>],
                                       "doi", DoiA))
            ELSE IF k = Jones2021
            THEN [TitledEntry(Article, FogsIce,
                              WithField([n \in {"year"} |-> <<"2", "0", "2", "1">>],
                                        "doi", DoiB))
                     EXCEPT !.persons = [role \in {"author"} |-> <<Others>>]]
            ELSE TitledEntry(<<"M", "i", "s", "c">>, FogsIce, <<>>)]]

\* bib_data.entries.items()
ValidatedKeys == <<Smith2020, Jones2021, Web2022>>

InitValidate ==
    /\ pc = "call"
    /\ args \in {[by_doi |-> d, by_title |-> t, by_author_year |-> y,
                  by_keywords |-> w, semantic_scholar |-> s, scholarly |-> g,
                  use_scholarly |-> u] :
                    d \in {NoResponse}
                            \cup Found({CrossrefRecord(DoiA, SunsSeaSky),
                                        WithAuthor(CrossrefRecord(DoiB, FogsIce),
                                                   <<"J">>, <<"S", "m", "i", "t", "h">>)}),
                    t \in {NoResponse, Response(TRUE, <<>>)}
                            \cup Found({CrossrefRecord(DoiA, SunsSeaSky),
                                        CrossrefRecord(DoiB, FogsIce)}),
                    y \in {NoResponse} \cup Found({CrossrefRecord(DoiB, <<"I", "c", "e">>)}),
                    w \in {NoResponse} \cup Found({CrossrefRecord(DoiA, <<"I", "c", "e">>)}),
                    s \in {NoResponse}
                            \cup Found({SemanticRecord(DoiA, SunsSeaSky),
                                        SemanticRecord(DoiB, FogsIce)}),
                    g \in {NoResponse, Response(TRUE, <<>>)}
                            \cup Found({SemanticRecord(<<>>, SunsSeaSky),
                                        SemanticRecord(<<>>, FogsIce)}),
                    u \in BOOLEAN}
    /\ ret = <<>>
    /\ NewChecker
    /\ bib_data = ValidatedData

\* lines 1513-1536: the round of the loop for the entry key
ValidateEntry(key) ==
    /\ pc = "call"
    /\ Len(ret) < Len(ValidatedKeys)
    /\ key = ValidatedKeys[Len(ret) + 1]
    /\ IF Lower(bib_data.entries[key].type) \in SKIPPED_ENTRY_TYPES
       THEN /\ ret' = Append(ret, [key |-> key, kind |-> "skipped"])
            /\ UNCHANGED <<field_mismatches, matches, mismatches, suggestions, not_found>>
       ELSE /\ ret' = Append(ret, [key |-> key, kind |-> "checked"])
            /\ Tracked(ScholarlyFallback(
                          SemanticFallback(
                              check_crossref(Checker(matches, mismatches, suggestions,
                                                     field_mismatches),
                                             key, bib_data.entries[key], FALSE, args),
                              key, bib_data.entries[key], args.semantic_scholar),
                          key, bib_data.entries[key], args.use_scholarly, args.scholarly),
                       key)
    /\ pc' = IF Len(ret) + 1 = Len(ValidatedKeys) THEN "done" ELSE "call"
    /\ UNCHANGED <<args, bib_data, scholarly_session_active>>

NextValidate == \E key \in DOMAIN bib_data.entries : ValidateEntry(key)

SpecValidate == InitValidate /\ [][NextValidate]_vars

\* the suggestions that check_crossref records for the entry on a new
\* checker, against the responses of the run
SuggestionsAlone(key) ==
    check_crossref(Checker(<<>>, <<>>, <<>>, <<>>), key, bib_data.entries[key],
                   FALSE, args).self.suggestions

\* C28: the suggestions that validate_all_entries records for an entry are
\* those that check_crossref records for it when it is processed first: the
\* searches by author and year and by author and keywords do not depend on
\* the outcome for the entries processed before.
SearchesIndependent ==
    \A k \in 1..Len(ret) :
        ret[k].kind = "checked"
            => SuggestionsFor(ret[k].key) = SuggestionsAlone(ret[k].key)

\* the number of records of matches with the key, and of its occurrences in
\* not_found
MatchCount(key) == Cardinality({k \in 1..Len(matches) : matches[k].entry_id = key})
NotFoundCount(key) == Cardinality({k \in 1..Len(not_found) : not_found[k] = key})

\* C29: after validate_all_entries, an entry of a type that is not skipped
\* has one record in matches and is not in not_found, or is once in
\* not_found and has no record in matches; an entry of a skipped type is in
\* neither list.
MatchedOrNotFound ==
    pc = "done" =>
        \A k \in 1..Len(ret) :
            IF ret[k].kind = "skipped"
            THEN MatchCount(ret[k].key) = 0 /\ NotFoundCount(ret[k].key) = 0
            ELSE \/ MatchCount(ret[k].key) = 1 /\ NotFoundCount(ret[k].key) = 0
                 \/ MatchCount(ret[k].key) = 0 /\ NotFoundCount(ret[k].key) = 1

(***************************************************************************)
(* biblatex_syntax_checker.py: check_brace_balance over the lines of a     *)
(* file.  args holds self.lines, ret the issues recorded.                  *)
(***************************************************************************)
\* the regex class \w, for ASCII text
WordCharacters == AsciiLetters \cup Digits \cup {"_"}

\* the position after the characters of chars that follow position i - 1
RECURSIVE SkipIn(_, _, _)
SkipIn(line, i, chars) ==
    IF i <= Len(line) /\ line[i] \in chars THEN SkipIn(line, i + 1, chars) ELSE i

\* the position after the characters outside chars that follow position i - 1
RECURSIVE SkipNotIn(_, _, _)
SkipNotIn(line, i, chars) ==
    IF i <= Len(line) /\ line[i] \notin chars THEN SkipNotIn(line, i + 1, chars) ELSE i

\* line[i] == c
CharAt(line, i, c) == i <= Len(line) /\ line[i] = c

\* entry_pattern.match(line), with the pattern ^\s*@(\w+)\s*\{\s*([^,\s]+):
\* whether the line declares an entry, and the key
EntryPatternMatch(line) ==
    LET at == SkipIn(line, 1, Whitespace)
        type_end == SkipIn(line, at + 1, WordCharacters)
        brace == SkipIn(line, type_end, Whitespace)
        key_start == SkipIn(line, brace + 1, Whitespace)
        key_end == SkipNotIn(line, key_start, Whitespace \cup {","})
    IN  IF /\ CharAt(line, at, "@")
           /\ type_end > at + 1
           /\ CharAt(line, brace, "{")
           /\ key_end > key_start
        THEN [matched |-> TRUE, key |-> SubSeq(line, key_start, key_end - 1)]
        ELSE [matched |-> FALSE, key |-> <<>>]

\* the number of characters c in the line
CountOf(line, c) == Cardinality({i \in 1..Len(line) : line[i] = c})

\* SyntaxIssue(line_num, severity, message), the message being one of three
SyntaxIssue(line_num, severity, message, entry_key) ==
    [line_num |-> line_num, severity |-> severity, message |-> message,
     entry_key |-> entry_key]

\* lines 104-115: a declaration ends the entry before it, which is reported
\* when its braces are not balanced, and starts a new one
Declared(scan, line_num, match) ==
    IF ~match.matched THEN scan
    ELSE [inside_entry |-> TRUE,
          brace_count |-> 0,
          entry_start |-> line_num,
          entry_key |-> match.key,
          issues |-> IF scan.inside_entry /\ scan.brace_count # 0
                     THEN Append(scan.issues,
                                 SyntaxIssue(scan.entry_start, "ERROR", "unmatched",
                                             scan.entry_key))
                     ELSE scan.issues]

\* lines 117-136: the braces of a line inside an entry are counted; a
\* negative count is reported and reset, and the entry ends at count 0
Counted(scan, line_num, brace_count) ==
    IF ~scan.inside_entry THEN scan
    ELSE [scan EXCEPT
            !.issues = IF brace_count < 0
                       THEN Append(@, SyntaxIssue(line_num, "ERROR", "too many closing",
                                                  scan.entry_key))
                       ELSE @,
            !.brace_count = IF brace_count < 0 THEN 0 ELSE brace_count,
            !.inside_entry = brace_count > 0]

\* the body of the loop for one line
ScanLine(scan, line_num, line) ==
    LET declared == Declared(scan, line_num, EntryPatternMatch(line))
    IN  Counted(declared, line_num,
                declared.brace_count + CountOf(line, "{") - CountOf(line, "}"))

\* the loop over the lines from line_num on
RECURSIVE ScanLines(_, _, _)
ScanLines(scan, lines, line_num) ==
    IF line_num > Len(lines) THEN scan
    ELSE ScanLines(ScanLine(scan, line_num, lines[line_num]), lines, line_num + 1)

\* lines 138-144: the last entry is reported when it is not closed
Closed(scan) ==
    IF scan.inside_entry /\ scan.brace_count # 0
    THEN Append(scan.issues,
                SyntaxIssue(scan.entry_start, "ERROR", "not closed", scan.entry_key))
    ELSE scan.issues

\* check_brace_balance: the issues it appends to self.issues
check_brace_balance(lines) ==
    Closed(ScanLines([inside_entry |-> FALSE, brace_count |-> 0, entry_start |-> 0,
                      entry_key |-> <<>>, issues |-> <<>>],
                     lines, 1))

\* number of lines of a file
MaxLines == 3

\* lines of a file: declarations, fields, braces, text
FileLines ==
    {<<"@", "a", "{", "k", ",">>, <<" ", "@", "a", " ", "{", " ", "k", "2", ",">>,
     <<"@", "a", "{", "k", "}">>, <<"@", "{", "k", ",">>,
     <<" ", "t", "=", "{", "x", "}", ",">>, <<" ", "t", "=", "{", "x", ",">>,
     <<"}">>, <<"}", "}">>, <<"{">>, <<>>}

InitBraces ==
    /\ pc = "call"
    /\ args \in [lines : SeqsUpTo(FileLines, 0, MaxLines)]
    /\ ret = <<>>
    /\ NewChecker
    /\ bib_data = NoData

CheckBraceBalance ==
    /\ pc = "call"
    /\ ret' = check_brace_balance(args.lines)
    /\ pc' = "done"
    /\ UNCHANGED <<args, field_mismatches, matches, mismatches, suggestions, bib_data, scholarly_session_active, not_found>>

NextBraces == CheckBraceBalance

SpecBraces == InitBraces /\ [][NextBraces]_vars

\* the lines that declare an entry
DeclarationLines(lines) ==
    {d \in 1..Len(lines) : EntryPatternMatch(lines[d]).matched}

\* the lines of the entry declared at line d: up to the line before the
\* next declaration, or the end of the file
EntrySpan(lines, d) ==
    {n \in d..Len(lines) : \A e \in DeclarationLines(lines) : e > d => n < e}

RECURSIVE CountIn(_, _, _)
CountIn(lines, span, c) ==
    IF span = {} THEN 0
    ELSE LET n == CHOOSE n \in span : TRUE
         IN  CountOf(lines[n], c) + CountIn(lines, span \ {n}, c)

\* C30: for every entry of the file whose lines, from its declaration up to
\* the line before the next declaration or the end of the file, hold
\* different numbers of '{' and '}', check_brace_balance records an ERROR at
\* a line of the entry.
UnbalancedReported ==
    pc = "done" =>
        \A d \in DeclarationLines(args.lines) :
            CountIn(args.lines, EntrySpan(args.lines, d), "{")
                    # CountIn(args.lines, EntrySpan(args.lines, d), "}")
                => \E k \in 1..Len(ret) :
                      /\ ret[k].severity = "ERROR"
                      /\ ret[k].line_num \in EntrySpan(args.lines, d)

====
